---- MODULE Spec2Model ----
(***************************************************************************)
(* A model of the rendering core of lokarta (src/app/ui/layout.py and      *)
(* src/app/ui/rendering.py): ANSI-aware text measurement and cropping, the *)
(* venue-object compositor, the scene gap computation, the melt animation  *)
(* and the hash PRNG behind the procedural palette.                        *)
(*                                                                         *)
(* A text is a sequence of one-character strings.  "ESC" stands for the    *)
(* single character \x1b.                                                  *)
(***************************************************************************)
EXTENDS Integers, Sequences, FiniteSets, TLC

VARIABLES
    text,       \* layout: the string handed to the layout helper
    width,      \* layout: the requested width
    anchor,     \* layout: anchor_x of center_crop_ansi: {} for None, {n} for n
    op,         \* layout: the helper that ran last
    out,        \* layout: what it returned
    scene,      \* scene: the scene record (scene_data)
    opponents,  \* scene: the host's opponent list
    meltPc,     \* melt_opponent: "idle", "melting" (inside the frame loop), "done"
    meltIndex,  \* melt_opponent: its index argument ({} for None, {n} for n)
    removed,    \* melt_opponent: the loop variable
    display_lines,  \* melt_opponent: the sprite rows as displayed
    frames,     \* the frames rendered so far (calls of render_scene_frame)
    gapResult,  \* what compute_scene_gap_target returned ({} before the call)
    venue_objects,  \* venue: venue["objects"], the strip of placement entries
    venuePc,    \* venue: "idle", "empty" (returned [] early) or "rendered"
    positions,  \* venue: render_venue_objects.positions
    cursor,     \* venue: the canvas width
    max_height, \* venue: the canvas height
    canvas,     \* venue: canvas, mask_canvas, rand_canvas and jitter_canvas, cell by cell
    writes,     \* venue: for each position, the cells its entry painted
    npc_anchor, \* venue: the returned anchor ({} for None)
    session,    \* colour: _SESSION_RANDOM_SEED, drawn once when the process starts
    prngSeed,   \* colour: the integer handed to _unit_from
    prngOut,    \* colour: what the calls of _mix64 / _unit_from on it returned
    calls,      \* colour: the calls of _random_color_code so far
    jitterCell, \* colour: a masked cell that carries jitter
    renders,     \* colour: the renders of that cell so far
    \* -- further parts --
    colorEntry, \* palette: the color_map entry under the mask key
    maskSite, \* palette: the renderer that paints the cell
    artColor, \* palette: art_color of the venue or scene
    cellOut, \* palette: what the renderer emitted for the cell ({} before)
    overlayPc, \* animate_spell_overlay: "idle", "looping" (inside the frame loops), "done"
    overlayIndex, \* animate_spell_overlay: its index argument ({} for None)
    overlayEffect, \* animate_spell_overlay: its effect argument
    overlayLoop, \* animate_spell_overlay: the loops finished so far
    overlayFrameIndex, \* animate_spell_overlay: frame_index
    overlayFrames, \* animate_spell_overlay: the frames rendered so far
    artScene, \* render_scene_art: scene_data
    artOpponents, \* render_scene_art: opponents
    artBars, \* render_scene_art: include_bars
    artRenders, \* render_scene_art: the layouts of the renders so far
    frameLocation, \* render_frame: player.location
    battle_log, \* push_battle_message: state.battle_log
    last_message, \* push_battle_message: state.last_message (0 before any)
    frameShown, \* render_frame: the body and the narrative rows of the last frame ({} before)
    cmdScene, \* scene_commands: scene_id and the commands of that scene
    cmdGlobal, \* scene_commands: commands_data.global_commands()
    cmdPlayer, \* scene_commands: player
    cmdOpponents, \* scene_commands: opponents
    cmdResult, \* scene_commands: include_hidden and the list returned ({} before the call)
    state, \* handle_command: the CommandState
    routerCall, \* handle_command: the arguments, the target resolved, the state before and the value returned of the last call ({} before any)
    routerCtx, \* handle_command: what the RouterContext holds of the saved player and the forest scene
    spells, \* SpellsData: self._spells
    lookup, \* SpellsData: the last lookup, its argument and its result ({} before any)
    animPc, \* animate_scene_gap: "idle", "looping" (inside the for loop), "done"
    animArgs, \* animate_scene_gap: start_gap, end_gap and steps
    animStep, \* animate_scene_gap: step, the loop variable
    animFrames, \* animate_scene_gap: the frames rendered so far
    placeOpponents, \* render_scene_art with an overlay: opponents
    placePalette, \* render_scene_art with an overlay: bool(color_by_key)
    placeRender, \* render_scene_art with an overlay: the arguments and the blocks of the last call ({} before any)
    panelFrame, \* render_frame: the Frame it is handed
    panelOut, \* render_frame: the kind and the visible width of every row written (<<>> before)
    hostHeap, \* host: the Opponent objects, by identity (position in the heap)
    hostList, \* host: the caller's opponents list, a list of identities
    hostBefore, \* host: the heap and the list as the caller built them
    hostCount, \* host: the render and animation calls made so far
    hostLast, \* host: the last call, with the art_opponents of each frame it rendered
    rowScene, \* gap rows: scene_data of the render_scene_art call
    rowOpponents, \* gap rows: its opponents
    rowOverride, \* gap rows: its gap_override ({} for None)
    rowWidths, \* gap rows: {} before the call, then the visible width of the gap on every row
    modeState, \* modes: the CommandState handle_command works on
    modeItems, \* modes: len(state.inventory_items)
    modeCalls, \* modes: the command ids handled so far
    battleOpponents, \* battle: state.opponents, each with its hp and melted flag
    battleCmd, \* battle: {} while a command is awaited, {action_cmd} once the command has run
    battleEvents, \* battle: what the last handle_offensive_action did, in order
    battleMelts, \* battle: how many times melt_opponent was called for each opponent
    battleTurns, \* battle: the player actions so far
    logLocation, \* log: state.player.location
    logBattle, \* log: state.battle_log
    logLast, \* log: state.last_message
    logAppended, \* log: every message appended to the log so far, in order
    logPushes, \* log: the push_battle_message calls so far
    steadyScene, \* steady: scene_data of the forest scene
    steadyOpponents, \* steady: state.opponents
    steadyShown \* steady: the last operation, its frames and the gap widths of its last frame

layoutVars == <<text, width, anchor, op, out>>

sceneVars == <<scene, opponents, meltPc, meltIndex, removed, display_lines, frames,
               gapResult>>

venueVars == <<venue_objects, venuePc, positions, cursor, max_height, canvas, writes,
               npc_anchor>>

colourVars == <<session, prngSeed, prngOut, calls, jitterCell, renders>>

\* the variable groups of the further parts
paletteVars == <<colorEntry, maskSite, artColor, cellOut>>

overlayVars == <<overlayPc, overlayIndex, overlayEffect, overlayLoop, overlayFrameIndex, overlayFrames>>

artVars == <<artScene, artOpponents, artBars, artRenders>>

frameVars == <<frameLocation, battle_log, last_message, frameShown>>

commandsVars == <<cmdScene, cmdGlobal, cmdPlayer, cmdOpponents, cmdResult>>

routerVars == <<state, routerCall, routerCtx>>

spellsVars == <<spells, lookup>>

animVars == <<animPc, animArgs, animStep, animFrames>>

placeVars == <<placeOpponents, placePalette, placeRender>>

panelVars == <<panelFrame, panelOut>>

hostVars == <<hostHeap, hostList, hostBefore, hostCount, hostLast>>

rowsVars == <<rowScene, rowOpponents, rowOverride, rowWidths>>

modesVars == <<modeState, modeItems, modeCalls>>

battleVars == <<battleOpponents, battleCmd, battleEvents, battleMelts, battleTurns>>

logVars == <<logLocation, logBattle, logLast, logAppended, logPushes>>

steadyVars == <<steadyScene, steadyOpponents, steadyShown>>

furtherVars == <<paletteVars, overlayVars, artVars, frameVars, commandsVars, routerVars, spellsVars, animVars, placeVars, panelVars, hostVars, rowsVars, modesVars, battleVars, logVars, steadyVars>>

exceptPaletteVars == <<layoutVars, sceneVars, venueVars, colourVars, overlayVars, artVars, frameVars, commandsVars, routerVars, spellsVars, animVars, placeVars, panelVars, hostVars, rowsVars, modesVars, battleVars, logVars, steadyVars>>

exceptOverlayVars == <<layoutVars, sceneVars, venueVars, colourVars, paletteVars, artVars, frameVars, commandsVars, routerVars, spellsVars, animVars, placeVars, panelVars, hostVars, rowsVars, modesVars, battleVars, logVars, steadyVars>>

exceptArtVars == <<layoutVars, sceneVars, venueVars, colourVars, paletteVars, overlayVars, frameVars, commandsVars, routerVars, spellsVars, animVars, placeVars, panelVars, hostVars, rowsVars, modesVars, battleVars, logVars, steadyVars>>

exceptFrameVars == <<layoutVars, sceneVars, venueVars, colourVars, paletteVars, overlayVars, artVars, commandsVars, routerVars, spellsVars, animVars, placeVars, panelVars, hostVars, rowsVars, modesVars, battleVars, logVars, steadyVars>>

exceptCommandsVars == <<layoutVars, sceneVars, venueVars, colourVars, paletteVars, overlayVars, artVars, frameVars, routerVars, spellsVars, animVars, placeVars, panelVars, hostVars, rowsVars, modesVars, battleVars, logVars, steadyVars>>

exceptRouterVars == <<layoutVars, sceneVars, venueVars, colourVars, paletteVars, overlayVars, artVars, frameVars, commandsVars, spellsVars, animVars, placeVars, panelVars, hostVars, rowsVars, modesVars, battleVars, logVars, steadyVars>>

exceptSpellsVars == <<layoutVars, sceneVars, venueVars, colourVars, paletteVars, overlayVars, artVars, frameVars, commandsVars, routerVars, animVars, placeVars, panelVars, hostVars, rowsVars, modesVars, battleVars, logVars, steadyVars>>

exceptAnimVars == <<layoutVars, sceneVars, venueVars, colourVars, paletteVars, overlayVars, artVars, frameVars, commandsVars, routerVars, spellsVars, placeVars, panelVars, hostVars, rowsVars, modesVars, battleVars, logVars, steadyVars>>

exceptPlaceVars == <<layoutVars, sceneVars, venueVars, colourVars, paletteVars, overlayVars, artVars, frameVars, commandsVars, routerVars, spellsVars, animVars, panelVars, hostVars, rowsVars, modesVars, battleVars, logVars, steadyVars>>

exceptPanelVars == <<layoutVars, sceneVars, venueVars, colourVars, paletteVars, overlayVars, artVars, frameVars, commandsVars, routerVars, spellsVars, animVars, placeVars, hostVars, rowsVars, modesVars, battleVars, logVars, steadyVars>>

exceptHostVars == <<layoutVars, sceneVars, venueVars, colourVars, paletteVars, overlayVars, artVars, frameVars, commandsVars, routerVars, spellsVars, animVars, placeVars, panelVars, rowsVars, modesVars, battleVars, logVars, steadyVars>>

exceptRowsVars == <<layoutVars, sceneVars, venueVars, colourVars, paletteVars, overlayVars, artVars, frameVars, commandsVars, routerVars, spellsVars, animVars, placeVars, panelVars, hostVars, modesVars, battleVars, logVars, steadyVars>>

exceptModesVars == <<layoutVars, sceneVars, venueVars, colourVars, paletteVars, overlayVars, artVars, frameVars, commandsVars, routerVars, spellsVars, animVars, placeVars, panelVars, hostVars, rowsVars, battleVars, logVars, steadyVars>>

exceptBattleVars == <<layoutVars, sceneVars, venueVars, colourVars, paletteVars, overlayVars, artVars, frameVars, commandsVars, routerVars, spellsVars, animVars, placeVars, panelVars, hostVars, rowsVars, modesVars, logVars, steadyVars>>

exceptLogVars == <<layoutVars, sceneVars, venueVars, colourVars, paletteVars, overlayVars, artVars, frameVars, commandsVars, routerVars, spellsVars, animVars, placeVars, panelVars, hostVars, rowsVars, modesVars, battleVars, steadyVars>>

exceptSteadyVars == <<layoutVars, sceneVars, venueVars, colourVars, paletteVars, overlayVars, artVars, frameVars, commandsVars, routerVars, spellsVars, animVars, placeVars, panelVars, hostVars, rowsVars, modesVars, battleVars, logVars>>

\* end of the variable groups

vars == <<layoutVars, sceneVars, venueVars, colourVars, furtherVars>>

(***************************************************************************)
(* Bounds of the model.                                                    *)
(***************************************************************************)
MaxLen == 5

MaxRows == 3

MaxGap == 21

MaxBlocks == 3

MaxEntries == 3

MaxSeed == 48

MaxCoord == 1

MaxTick == 3

(***************************************************************************)
(* Small helpers.                                                          *)
(***************************************************************************)
Max(a, b) == IF a >= b THEN a ELSE b

Min(a, b) == IF a <= b THEN a ELSE b

Spaces(n) == [i \in 1..Max(n, 0) |-> " "]

\* text[i:j] of Python for 0-based i <= j (1-based i+1 .. j here)
Slice(s, from, to) == [k \in 1..Max(0, Min(to, Len(s)) - from + 1) |-> s[from + k - 1]]

RECURSIVE ListsOfLen(_, _)
ListsOfLen(S, n) ==
    IF n = 0 THEN {<<>>}
    ELSE {Append(l, e) : l \in ListsOfLen(S, n - 1), e \in S}

(***************************************************************************)
(* layout.py                                                               *)
(***************************************************************************)
ESC == "ESC"

\* the characters the model builds texts from: ESC, the CSI bracket, the
\* SGR terminator, one member of the class [0-9;] and one other character
Chars == {ESC, "[", "m", "1", "x"}

ParamChars == {"0", "1", "2", "3", "4", "5", "6", "7", "8", "9", ";"}

RECURSIVE TextsOfLen(_)
TextsOfLen(n) ==
    IF n = 0 THEN {<<>>}
    ELSE {Append(s, c) : s \in TextsOfLen(n - 1), c \in Chars}

Texts == UNION {TextsOfLen(n) : n \in 0..MaxLen}

\* the first index >= j whose character is outside [0-9;] (Len(s)+1 if none)
RECURSIVE SkipParams(_, _)
SkipParams(s, j) ==
    IF j <= Len(s) /\ s[j] \in ParamChars THEN SkipParams(s, j + 1) ELSE j

\* re.sub(r"\x1b\[[0-9;]*m", "", s): leftmost non-overlapping matches are removed
RECURSIVE StripFrom(_, _)
StripFrom(s, i) ==
    IF i > Len(s) THEN <<>>
    ELSE IF s[i] = ESC /\ i + 1 <= Len(s) /\ s[i + 1] = "["
         THEN LET j == SkipParams(s, i + 2)
              IN  IF j <= Len(s) /\ s[j] = "m"
                  THEN StripFrom(s, j + 1)
                  ELSE <<s[i]>> \o StripFrom(s, i + 1)
         ELSE <<s[i]>> \o StripFrom(s, i + 1)

strip_ansi(s) == StripFrom(s, 1)

\* the inner scan of both croppers: while j < len(text) and text[j] != "m": j += 1
RECURSIVE FindM(_, _)
FindM(s, j) ==
    IF j <= Len(s) /\ s[j] # "m" THEN FindM(s, j + 1) ELSE j

\* the trimming loop of pad_or_trim_ansi
RECURSIVE TrimLoop(_, _, _, _, _)
TrimLoop(s, w, i, vis_idx, acc) ==
    IF ~(i <= Len(s) /\ vis_idx < w) THEN acc
    ELSE IF s[i] = ESC /\ i + 1 <= Len(s) /\ s[i + 1] = "[" /\ FindM(s, i + 2) <= Len(s)
         THEN LET j == FindM(s, i + 2)
              IN  TrimLoop(s, w, j + 1, vis_idx, acc \o Slice(s, i, j))
         ELSE TrimLoop(s, w, i + 1, vis_idx + 1, Append(acc, s[i]))

\* a trim that counts raw characters instead of visible ones
pad_or_trim_raw(s, w) ==
    IF Len(strip_ansi(s)) > w THEN Slice(s, 1, w)
    ELSE s \o Spaces(w - Len(strip_ansi(s)))

pad_or_trim_ansi(s, w) ==
    IF Len(strip_ansi(s)) > w THEN TrimLoop(s, w, 1, 0, <<>>)
    ELSE s \o Spaces(w - Len(strip_ansi(s)))

\* a pad that measures the raw length
pad_raw(s, w) ==
    IF Len(s) >= w THEN s ELSE s \o Spaces(w - Len(s))

pad_ansi(s, w) ==
    IF Len(strip_ansi(s)) >= w THEN s
    ELSE s \o Spaces(w - Len(strip_ansi(s)))

center_ansi(s, w) ==
    LET visible_len == Len(strip_ansi(s))
        left == (w - visible_len) \div 2
        right == w - visible_len - left
    IN  IF visible_len > w THEN pad_or_trim_ansi(s, w)
        ELSE IF visible_len = w THEN s
        ELSE Spaces(left) \o s \o Spaces(right)

\* the window loop of center_crop_ansi
RECURSIVE CropLoop(_, _, _, _, _, _)
CropLoop(s, start, end, i, vis_idx, acc) ==
    IF i > Len(s) THEN acc
    ELSE IF s[i] = ESC /\ i + 1 <= Len(s) /\ s[i + 1] = "[" /\ FindM(s, i + 2) <= Len(s)
         THEN LET j == FindM(s, i + 2)
              IN  CropLoop(s, start, end, j + 1, vis_idx,
                           IF start <= vis_idx /\ vis_idx < end
                           THEN acc \o Slice(s, i, j) ELSE acc)
         ELSE CropLoop(s, start, end, i + 1, vis_idx + 1,
                       IF start <= vis_idx /\ vis_idx < end
                       THEN Append(acc, s[i]) ELSE acc)

CropStart(visible_len, w, anchor_x) ==
    IF anchor_x = {} THEN (visible_len - w) \div 2
    ELSE LET a == Max(0, Min(CHOOSE n \in anchor_x : TRUE, Max(visible_len - 1, 0)))
         IN  Max(0, Min(a - (w \div 2), visible_len - w))

center_crop_ansi(s, w, anchor_x) ==
    LET visible_len == Len(strip_ansi(s))
        start == CropStart(visible_len, w, anchor_x)
    IN  IF visible_len <= w THEN center_ansi(s, w)
        ELSE CropLoop(s, start, start + w, 1, 0, <<>>)

(***************************************************************************)
(* rendering.py: opponent blocks, the gap and the melt animation           *)
(***************************************************************************)
OPPONENT_ART_WIDTH == 10

\* str.rstrip(): trailing blanks removed
RECURSIVE rstrip(_)
rstrip(s) ==
    IF Len(s) > 0 /\ s[Len(s)] = " " THEN rstrip(SubSeq(s, 1, Len(s) - 1)) ELSE s

ljust(s, n) == s \o Spaces(n - Len(s))

\* str.center(w): CPython puts marg/2 + (marg & w & 1) blanks on the left
center(s, w) ==
    LET marg == w - Len(s)
        left == (marg \div 2) + (IF marg % 2 = 1 /\ w % 2 = 1 THEN 1 ELSE 0)
    IN  IF marg <= 0 THEN s ELSE Spaces(left) \o s \o Spaces(marg - left)

RECURSIVE MaxLenOf(_)
MaxLenOf(lines) ==
    IF lines = <<>> THEN 0 ELSE Max(Len(Head(lines)), MaxLenOf(Tail(lines)))

\* [line.center(w) for line in [line.ljust(max_len) for line in raw_lines]]
CenterBlock(raw_lines, w) ==
    [k \in 1..Len(raw_lines) |-> center(ljust(raw_lines[k], MaxLenOf(raw_lines)), w)]

\* melt_opponent: display_lines
DisplayLines(art_lines) ==
    CenterBlock([k \in 1..Len(art_lines) |->
                    rstrip(Slice(art_lines[k], 1, OPPONENT_ART_WIDTH))],
                OPPONENT_ART_WIDTH)

SGR(code) == <<ESC, "[">> \o code \o <<"m">>

FG_WHITE == SGR(<<"3", "7">>)

FG_GREEN == SGR(<<"3", "2">>)

Repeat(c, n) == [i \in 1..Max(n, 0) |-> c]

format_opponent_bar(o) ==
    LET inner == OPPONENT_ART_WIDTH - 2
        \* ratio = max(0, min(1, hp / max_hp)); filled = int(ratio * inner)
        filled0 == IF o.max_hp <= 0 \/ o.hp <= 0 THEN 0
                   ELSE IF o.hp >= o.max_hp THEN inner
                   ELSE (o.hp * inner) \div o.max_hp
        filled == Max(0, Min(inner, filled0))
    IN  FG_WHITE \o <<"[">> \o FG_GREEN \o Repeat("#", filled)
            \o FG_WHITE \o Repeat("_", inner - filled) \o <<"]">>

BlankRow == Spaces(OPPONENT_ART_WIDTH)

\* the block rows without the bar row of a dead opponent
BlockLinesNoBar(o, i, visible_indices, include_bars, manual_lines_indices) ==
    LET is_visible == visible_indices = {"all"} \/ i \in visible_indices
        H == Len(o.art_lines)
    IN  IF o.hp > 0 /\ is_visible
        THEN DisplayLines(o.art_lines)
                 \o (IF include_bars
                     THEN <<pad_ansi(format_opponent_bar(o), OPPONENT_ART_WIDTH)>>
                     ELSE <<>>)
        ELSE [k \in 1..H |-> BlankRow]

\* render_scene_art: the rows of the block of opponent i (0-based), before colouring
BlockLines(o, i, visible_indices, include_bars, manual_lines_indices) ==
    LET is_visible == visible_indices = {"all"} \/ i \in visible_indices
        manual == i \in manual_lines_indices
        H == Len(o.art_lines)
        sprite ==
            IF manual
            THEN CenterBlock([k \in 1..H |-> Slice(o.art_lines[k], 1, OPPONENT_ART_WIDTH)],
                             OPPONENT_ART_WIDTH)
            ELSE IF o.hp > 0 /\ is_visible
            THEN DisplayLines(o.art_lines)
                    \o (IF include_bars
                        THEN <<pad_ansi(format_opponent_bar(o), OPPONENT_ART_WIDTH)>>
                        ELSE <<>>)
            ELSE [k \in 1..H |-> BlankRow] \o (IF include_bars THEN <<BlankRow>> ELSE <<>>)
    IN  sprite \o (IF manual /\ include_bars THEN <<BlankRow>> ELSE <<>>)

\* the 0-based indices of the opponents that have art, in list order
RECURSIVE WithArt(_, _)
WithArt(opps, k) ==
    IF k > Len(opps) THEN <<>>
    ELSE (IF opps[k].art_lines # <<>> THEN <<k - 1>> ELSE <<>>) \o WithArt(opps, k + 1)

RECURSIVE MaxRowsOf(_)
MaxRowsOf(blocks) ==
    IF blocks = <<>> THEN 0 ELSE Max(Len(Head(blocks).lines), MaxRowsOf(Tail(blocks)))

\* render_scene_art: opponent_blocks, each padded at the top to the tallest block
OpponentBlocks(opps, visible_indices, include_bars, manual_lines_indices) ==
    LET idx == WithArt(opps, 1)
        raw == [b \in 1..Len(idx) |->
                   [index |-> idx[b],
                    lines |-> BlockLines(opps[idx[b] + 1], idx[b], visible_indices,
                                         include_bars, manual_lines_indices)]]
        rows == MaxRowsOf(raw)
    IN  [b \in 1..Len(raw) |->
            [index |-> raw[b].index,
             lines |-> [k \in 1..(rows - Len(raw[b].lines)) |-> BlankRow] \o raw[b].lines]]

\* int(scene_data.get("gap_min", 2)) if scene_data.get("left") or
\* scene_data.get("objects_left") else int(scene_data.get("gap_width", 20))
GapBase(sc) ==
    IF sc.left \/ sc.objects_left
    THEN (IF sc.gap_min = {} THEN 2 ELSE CHOOSE g \in sc.gap_min : TRUE)
    ELSE (IF sc.gap_width = {} THEN 20 ELSE CHOOSE g \in sc.gap_width : TRUE)

CountWithArt(opps) == Len(WithArt(opps, 1))

\* the gap without the edge padding
gap_target_no_edge(sc, opps) ==
    LET n == CountWithArt(opps)
    IN  IF ~sc.present THEN 0
        ELSE IF n = 0 THEN GapBase(sc)
        ELSE Max(GapBase(sc), Max(OPPONENT_ART_WIDTH, 0) * n + 2 * Max(0, n - 1))

compute_scene_gap_target(sc, opps) ==
    LET n == CountWithArt(opps)
        widest_block == Max(OPPONENT_ART_WIDTH, 0)
        blocks_width == widest_block * n
        inter_pad == 2
        gap_pad == 2
        total == blocks_width + (inter_pad * Max(0, n - 1)) + (gap_pad * 2)
    IN  IF ~sc.present THEN 0
        ELSE IF n = 0 THEN GapBase(sc)
        ELSE Max(GapBase(sc), total)

\* render_scene_frame, as far as the art goes: what render_scene_art is handed
\* and the opponent blocks it builds
RenderSceneFrame(opps, gap_override, art_opponents, manual_lines_indices, suppress) ==
    [gap_override |-> gap_override,
     art_opponents |-> art_opponents,
     manual_lines_indices |-> manual_lines_indices,
     suppress_actions |-> suppress,
     blocks |-> OpponentBlocks(art_opponents, {"all"}, TRUE, manual_lines_indices)]

\* a melt loop that starts at range(0, ...): the first frame blanks nothing
MeltTrimmedFromZero(lines, k) ==
    [r \in 1..(k - 1) |-> BlankRow] \o SubSeq(lines, k, Len(lines))

\* melt_opponent: trimmed = [" " * width for _ in range(removed)] + display_lines[removed:]
MeltTrimmed(lines, k) ==
    [r \in 1..k |-> BlankRow] \o SubSeq(lines, k + 1, Len(lines))

\* melt_opponent: art_overrides
MeltOverrides(opps, index, trimmed) ==
    [i \in 1..Len(opps) |->
        IF i - 1 = index THEN [opps[i] EXCEPT !.art_lines = trimmed, !.hp = 0]
        ELSE opps[i]]

\* the art rows the model draws sprites from: empty, ragged, with trailing
\* blanks, and wider than the block
ArtRows == {<<>>, <<"#">>, <<" ", "#">>, <<"#", " ">>, Repeat("#", OPPONENT_ART_WIDTH + 1)}

RECURSIVE SpritesOfHeight(_)
SpritesOfHeight(h) ==
    IF h = 0 THEN {<<>>}
    ELSE {Append(sp, r) : sp \in SpritesOfHeight(h - 1), r \in ArtRows}

Sprites == UNION {SpritesOfHeight(h) : h \in 0..MaxRows}

Opponent(art, hp) == [art_lines |-> art, hp |-> hp, max_hp |-> 3, melted |-> FALSE]

Targets == {Opponent(art, hp) : art \in Sprites, hp \in {0, 2}}

Others == {Opponent(<<<<"#", "#">>, <<"#">>>>, 3), Opponent(<<<<"#">>>>, 0)}

OpponentLists ==
    {<<t>> : t \in Targets}
        \cup {<<t, o>> : t \in Targets, o \in Others}
        \cup {<<o, t>> : t \in Targets, o \in Others}

\* a scene record: present is false for the empty dict; left / objects_left tell
\* whether those keys are truthy; gap_min / gap_width are {} when the key is
\* missing and {n} otherwise
SceneRec(p, l, ol, gm, gw) ==
    [present |-> p, left |-> l, objects_left |-> ol, gap_min |-> gm, gap_width |-> gw]

EmptyScene == SceneRec(FALSE, FALSE, FALSE, {}, {})

ForestScene == SceneRec(TRUE, TRUE, FALSE, {2}, {})

IdleScene ==
    /\ scene = EmptyScene
    /\ opponents = <<>>
    /\ meltPc = "idle"
    /\ meltIndex = {}
    /\ removed = 0
    /\ display_lines = <<>>
    /\ frames = <<>>
    /\ gapResult = {}

(***************************************************************************)
(* rendering.py: render_venue_objects, the strip compositor                *)
(***************************************************************************)
MaskDigits == {"0", "1", "2", "3", "4", "5", "6", "7", "8", "9"}

MaskAlpha == {"a", "b", "g", "w", "y"}

\* objects_data: the art library.  align is in quarters (4 = 1.0), variation in
\* hundredths.
ObjectsData ==
    [fence |-> [art |-> <<<<"-">>>>, color_mask |-> <<<<"b">>>>, align |-> 0,
                variation |-> 0, jitter_stability |-> TRUE],
     tree  |-> [art |-> <<<<" ", "A">>, <<"B", "C", "D">>>>,
                color_mask |-> <<<<" ", "g">>, <<"1", "b", "g">>>>, align |-> 0,
                variation |-> 20, jitter_stability |-> FALSE],
     hut   |-> [art |-> <<<<"H", "I">>>>, color_mask |-> <<<<"w">>>>, align |-> 4,
                variation |-> 0, jitter_stability |-> TRUE],
     pole  |-> [art |-> <<<<"P">>, <<"Q">>, <<"R">>>>, color_mask |-> <<>>, align |-> 1,
                variation |-> 0, jitter_stability |-> TRUE],
     mist  |-> [art |-> <<<<" ", "M">>>>, color_mask |-> <<<<"w", "w">>>>, align |-> 0,
                variation |-> 0, jitter_stability |-> TRUE],
     void  |-> [art |-> <<>>, color_mask |-> <<>>, align |-> 0,
                variation |-> 0, jitter_stability |-> TRUE]]

NoObject ==
    [art |-> <<>>, color_mask |-> <<>>, align |-> 0, variation |-> 0,
     jitter_stability |-> TRUE]

Npc == [art |-> <<<<" ", "N">>>>, color_map |-> <<>>, variation |-> 0,
        jitter_stability |-> TRUE]

npc_key == "@"

npc_mask_lines == Npc.color_map

_obj_def(obj_id) ==
    IF obj_id \in DOMAIN ObjectsData THEN ObjectsData[obj_id] ELSE NoObject

_obj_art(obj_id) == IF obj_id = "npc" THEN Npc.art ELSE _obj_def(obj_id).art

_obj_mask(obj_id) ==
    IF obj_id = "npc" THEN npc_mask_lines ELSE _obj_def(obj_id).color_mask

\* an optional field: {} when the key is missing, {v} otherwise
Get(opt, default) == IF opt = {} THEN default ELSE CHOOSE v \in opt : TRUE

_obj_align(entry, obj_id) == Get(entry.align, _obj_def(obj_id).align)

\* a span_until entry that takes up the width of its own art
EntryWidthSpanCounts(entry) ==
    IF entry.id = "space"
    THEN LET w == Get(entry.width, 1)
         IN  Max(0, IF w = 0 THEN 1 ELSE w)
    ELSE MaxLenOf(_obj_art(entry.id))

\* _obj_size(...)[0], then width = 0 for mode span_until
EntryWidth(entry) ==
    IF entry.mode = "span_until" THEN 0
    ELSE IF entry.id = "space"
    THEN LET w == Get(entry.width, 1)
         IN  Max(0, IF w = 0 THEN 1 ELSE w)
    ELSE MaxLenOf(_obj_art(entry.id))

\* _obj_size(...)[1]
EntryHeight(entry) ==
    IF entry.id = "space" THEN 0 ELSE Len(_obj_art(entry.id))

\* repeat = max(1, int(entry.get("repeat", 1) or 1))
RepeatOf(entry) ==
    LET r == Get(entry.repeat, 1)
    IN  Max(1, IF r = 0 THEN 1 ELSE r)

RECURSIVE Expand(_)
Expand(objs) ==
    IF objs = <<>> THEN <<>>
    ELSE [k \in 1..RepeatOf(Head(objs)) |-> Head(objs)] \o Expand(Tail(objs))

RECURSIVE PlaceAll(_, _)
PlaceAll(expanded, x) ==
    IF expanded = <<>> THEN <<>>
    ELSE <<[entry |-> Head(expanded), id |-> Head(expanded).id, x |-> x]>>
            \o PlaceAll(Tail(expanded), x + EntryWidth(Head(expanded)))

RECURSIVE SumWidths(_)
SumWidths(expanded) ==
    IF expanded = <<>> THEN 0
    ELSE EntryWidth(Head(expanded)) + SumWidths(Tail(expanded))

RECURSIVE MaxHeightOf(_)
MaxHeightOf(expanded) ==
    IF expanded = <<>> THEN 0
    ELSE Max(EntryHeight(Head(expanded)), MaxHeightOf(Tail(expanded)))

\* the label _random_seed_base hashes for position idx (0-based)
SeedLabel(obj_id, idx) == <<obj_id, idx>>

\* the nearest integer to n4 quarters, a half going to the even neighbour
RoundQuarters(n4) ==
    LET q == n4 \div 4
        rem == n4 % 4
    IN  IF rem < 2 THEN q
        ELSE IF rem > 2 THEN q + 1
        ELSE IF q % 2 = 0 THEN q ELSE q + 1

\* y = round((1 - align) * max(0, room)), align in quarters
AlignYRound(align4, room) == RoundQuarters((4 - align4) * Max(0, room))

\* y = int((1 - align) * max(0, room)), align in quarters
AlignY(align4, room) == ((4 - align4) * Max(0, room)) \div 4

BlankCell == [ch |-> " ", mask |-> " ", rand |-> {}, jitter |-> {}]

\* what _blit and _place_mask do to the cell at art row r, column c (1-based)
BlitCell(art, mask, x, y, r, c, seed_base, jitter_amount, jitter_stability, mask_override) ==
    LET ch == art[r][c]
        mask_char == IF r <= Len(mask) /\ c <= Len(mask[r]) THEN mask[r][c] ELSE ""
        placed == IF mask_override # "" THEN mask_override ELSE mask_char
    IN  [y |-> y + r - 1, x |-> x + c - 1, ch |-> ch, mask |-> placed,
         rand |-> IF mask_override = "" /\ placed \in MaskDigits
                  THEN {<<seed_base, c - 1, r - 1>>} ELSE {},
         jitter |-> IF mask_override = "" /\ jitter_amount > 0 /\ placed \in MaskAlpha
                    THEN {<<seed_base, jitter_amount, jitter_stability, c - 1, r - 1>>}
                    ELSE {}]

\* the cells _blit paints: every non-blank character that lands on the canvas
BlitWrites(art, mask, x, y, seed_base, jitter_amount, jitter_stability, mask_override, W, H) ==
    LET cells == UNION {{<<r, c>> : c \in 1..Len(art[r])} : r \in 1..Len(art)}
        painted == {rc \in cells :
                        /\ y + rc[1] - 1 >= 0
                        /\ y + rc[1] - 1 < H
                        /\ x + rc[2] - 1 >= 0
                        /\ x + rc[2] - 1 < W
                        /\ art[rc[1]][rc[2]] # " "}
    IN  {BlitCell(art, mask, x, y, rc[1], rc[2], seed_base, jitter_amount,
                  jitter_stability, mask_override) : rc \in painted}

\* the 1-based position of the first later entry whose id is target_id (0 if none)
RECURSIVE FindTarget(_, _, _)
FindTarget(pos, from, target_id) ==
    IF from > Len(pos) THEN 0
    ELSE IF pos[from].id = target_id THEN from
    ELSE FindTarget(pos, from + 1, target_id)

\* a fill that runs one column too far
SpanWritesOneMore(pos, k, W, H) ==
    LET entry == pos[k].entry
        t == IF entry.target = "" THEN 0 ELSE FindTarget(pos, k + 1, entry.target)
        span == IF t = 0 THEN 0 ELSE pos[t].x - pos[k].x
        art == _obj_art(pos[k].id)
        mask == _obj_mask(pos[k].id)
        char == IF art # <<>> /\ art[1] # <<>> THEN art[1][1] ELSE " "
        mask_char == IF mask # <<>> /\ mask[1] # <<>> THEN mask[1][1] ELSE ""
        y == AlignY(_obj_align(entry, pos[k].id), H - 1)
    IN  IF span <= 0 \/ art = <<>> \/ char = " " THEN {}
        ELSE {[y |-> y, x |-> pos[k].x + dx, ch |-> char, mask |-> mask_char,
               rand |-> {}, jitter |-> {}] : dx \in 0..Min(span, W - 1 - pos[k].x)}

\* the cells the span_until branch paints for position k (1-based)
SpanWrites(pos, k, W, H) ==
    LET entry == pos[k].entry
        t == IF entry.target = "" THEN 0 ELSE FindTarget(pos, k + 1, entry.target)
        span == IF t = 0 THEN 0 ELSE pos[t].x - pos[k].x
        art == _obj_art(pos[k].id)
        mask == _obj_mask(pos[k].id)
        char == IF art # <<>> /\ art[1] # <<>> THEN art[1][1] ELSE " "
        mask_char == IF mask # <<>> /\ mask[1] # <<>> THEN mask[1][1] ELSE ""
        y == AlignY(_obj_align(entry, pos[k].id), H - 1)
    IN  IF span <= 0 \/ art = <<>> \/ char = " " THEN {}
        ELSE {[y |-> y, x |-> pos[k].x + dx, ch |-> char, mask |-> mask_char,
               rand |-> {}, jitter |-> {}] : dx \in 0..(span - 1)}

\* one pass of the placement loop: the cells position k (1-based) paints
EntryWrites(pos, k, W, H) ==
    LET entry == pos[k].entry
        obj_id == pos[k].id
        seed_base == SeedLabel(obj_id, k - 1)
        source == IF obj_id = "npc" THEN Npc ELSE _obj_def(obj_id)
        jitter_amount == Get(entry.variation, source.variation)
        jitter_stability == source.jitter_stability
        art == _obj_art(obj_id)
        y == AlignY(_obj_align(entry, obj_id), H - Len(art))
    IN  IF entry.mode = "span_until" THEN SpanWrites(pos, k, W, H)
        ELSE IF obj_id = "space" \/ art = <<>> THEN {}
        ELSE BlitWrites(art, _obj_mask(obj_id), pos[k].x, y, seed_base, jitter_amount,
                        jitter_stability,
                        IF obj_id = "npc" /\ npc_mask_lines = <<>> THEN npc_key ELSE "",
                        W, H)

\* a cell after the writes ws of one entry
Paint(cell, ws, y, x) ==
    IF \E w \in ws : w.y = y /\ w.x = x
    THEN LET w == CHOOSE w \in ws : w.y = y /\ w.x = x
         IN  [ch |-> w.ch,
              mask |-> IF w.mask # "" THEN w.mask ELSE cell.mask,
              rand |-> IF w.rand # {} THEN w.rand ELSE cell.rand,
              jitter |-> IF w.jitter # {} THEN w.jitter ELSE cell.jitter]
    ELSE cell

\* the placement loop from position k on
RECURSIVE PaintFrom(_, _, _, _, _)
PaintFrom(grid, pos, k, W, H) ==
    IF k > Len(pos) THEN grid
    ELSE PaintFrom([y \in 0..(H - 1) |->
                       [x \in 0..(W - 1) |->
                           Paint(grid[y][x], EntryWrites(pos, k, W, H), y, x)]],
                   pos, k + 1, W, H)

\* npc_anchor: set by the first npc entry that has art
NpcAnchor(pos) ==
    LET art == Npc.art
        ks == {k \in 1..Len(pos) :
                  pos[k].id = "npc" /\ pos[k].entry.mode # "span_until" /\ art # <<>>}
        cols == UNION {{c - 1 : c \in {c \in 1..Len(art[r]) : art[r][c] # " "}} :
                          r \in 1..Len(art)}
        min_x == IF cols = {} THEN 0 ELSE CHOOSE c \in cols : \A d \in cols : c <= d
        max_x == IF cols = {} THEN Max(MaxLenOf(art), 1) - 1
                 ELSE CHOOSE c \in cols : \A d \in cols : c >= d
    IN  IF ks = {} THEN {}
        ELSE LET k == CHOOSE k \in ks : \A j \in ks : k <= j
             IN  {pos[k].x + min_x + Max(0, (max_x - min_x) \div 2)}

Entry(id, mode, target, w, rep, al) ==
    [id |-> id, mode |-> mode, target |-> target, width |-> w, repeat |-> rep,
     align |-> al, variation |-> {}]

\* the placement entries the model draws strips from
Entries ==
    {Entry("tree", "", "", {}, {}, {}),
     Entry("tree", "", "", {}, {2}, {4}),
     Entry("tree", "", "", {}, {}, {1}),
     Entry("hut", "", "", {}, {}, {}),
     Entry("pole", "", "", {}, {}, {}),
     Entry("mist", "", "", {}, {}, {}),
     Entry("void", "", "", {}, {}, {}),
     Entry("npc", "", "", {}, {}, {}),
     Entry("space", "", "", {}, {}, {}),
     Entry("space", "", "", {0}, {}, {}),
     Entry("space", "", "", {5}, {}, {}),
     Entry("space", "", "", {0 - 1}, {}, {}),
     Entry("fence", "span_until", "hut", {}, {}, {}),
     Entry("fence", "span_until", "tree", {}, {}, {4}),
     Entry("mist", "span_until", "hut", {}, {}, {}),
     Entry("void", "span_until", "hut", {}, {}, {}),
     Entry("fence", "span_until", "", {}, {}, {})}

Strips == UNION {[1..n -> Entries] : n \in 1..MaxEntries}

IdleVenue ==
    /\ venue_objects = <<>>
    /\ venuePc = "idle"
    /\ positions = <<>>
    /\ cursor = 0
    /\ max_height = 0
    /\ canvas = <<>>
    /\ writes = <<>>
    /\ npc_anchor = {}

(***************************************************************************)
(* rendering.py: the hash PRNG and the procedural colours                  *)
(*                                                                         *)
(* Python integers are unbounded, so a non-negative integer is a sequence  *)
(* of base-256 limbs, least significant first (zero limbs at the top are   *)
(* allowed), and an integer of either sign is a record [neg, mag].         *)
(***************************************************************************)
Limb(a, i) == IF i >= 1 /\ i <= Len(a) THEN a[i] ELSE 0

RECURSIVE NatLimbs(_)
NatLimbs(n) == IF n = 0 THEN <<>> ELSE <<n % 256>> \o NatLimbs(n \div 256)

RECURSIVE Norm(_)
Norm(a) ==
    IF a = <<>> THEN <<>>
    ELSE IF a[Len(a)] = 0 THEN Norm(SubSeq(a, 1, Len(a) - 1))
    ELSE a

Pos(mag) == [neg |-> FALSE, mag |-> mag]

Pow2(n) ==
    IF n = 0 THEN 1 ELSE IF n = 1 THEN 2 ELSE IF n = 2 THEN 4 ELSE IF n = 3 THEN 8
    ELSE IF n = 4 THEN 16 ELSE IF n = 5 THEN 32 ELSE IF n = 6 THEN 64
    ELSE IF n = 7 THEN 128 ELSE 256

RECURSIVE Carry(_, _, _, _)
Carry(cols, k, c, acc) ==
    IF k > Len(cols) THEN
        IF c = 0 THEN acc ELSE Carry(<<>>, 1, c \div 256, Append(acc, c % 256))
    ELSE Carry(cols, k + 1, (cols[k] + c) \div 256, Append(acc, (cols[k] + c) % 256))

\* a + b
Add(a, b) == Carry([i \in 1..Max(Len(a), Len(b)) |-> Limb(a, i) + Limb(b, i)], 1, 0, <<>>)

RECURSIVE ColSum(_, _, _, _)
ColSum(a, b, k, i) ==
    IF i > Min(k, Len(a)) THEN 0
    ELSE a[i] * Limb(b, k + 1 - i) + ColSum(a, b, k, i + 1)

\* a * b
Mul(a, b) == Carry([k \in 1..(Len(a) + Len(b)) |-> ColSum(a, b, k, 1)], 1, 0, <<>>)

RECURSIVE LessFrom(_, _, _)
LessFrom(a, b, i) ==
    IF i = 0 THEN FALSE
    ELSE IF Limb(a, i) # Limb(b, i) THEN Limb(a, i) < Limb(b, i)
    ELSE LessFrom(a, b, i - 1)

\* a < b
Less(a, b) == LessFrom(a, b, Max(Len(a), Len(b)))

RECURSIVE Borrow(_, _, _, _, _)
Borrow(a, b, k, c, acc) ==
    IF k > Len(a) THEN acc
    ELSE LET d == Limb(a, k) - Limb(b, k) - c
         IN  IF d < 0 THEN Borrow(a, b, k + 1, 1, Append(acc, d + 256))
             ELSE Borrow(a, b, k + 1, 0, Append(acc, d))

\* a - b, for a >= b
Sub(a, b) == Borrow(a, b, 1, 0, <<>>)

Xor8(a, b) ==
    ((a + b) % 2)
    + 2 * (((a \div 2) + (b \div 2)) % 2)
    + 4 * (((a \div 4) + (b \div 4)) % 2)
    + 8 * (((a \div 8) + (b \div 8)) % 2)
    + 16 * (((a \div 16) + (b \div 16)) % 2)
    + 32 * (((a \div 32) + (b \div 32)) % 2)
    + 64 * (((a \div 64) + (b \div 64)) % 2)
    + 128 * (((a \div 128) + (b \div 128)) % 2)

\* a ^ b
Xor(a, b) == [i \in 1..Max(Len(a), Len(b)) |-> Xor8(Limb(a, i), Limb(b, i))]

\* a >> s
Shr(a, s) ==
    LET q == s \div 8
        r == s % 8
    IN  [i \in 1..Max(0, Len(a) - q) |->
            ((Limb(a, i + q) \div Pow2(r)) + (Limb(a, i + q + 1) % Pow2(r)) * Pow2(8 - r)) % 256]

\* a << s
Shl(a, s) ==
    LET q == s \div 8
        r == s % 8
    IN  [i \in 1..(Len(a) + q + 1) |->
            ((Limb(a, i - q) * Pow2(r)) % 256) + (Limb(a, i - q - 1) \div Pow2(8 - r))]

\* a & 0xFFFFFFFFFFFFFFFF
Mask64(a) == [i \in 1..8 |-> Limb(a, i)]

\* value & 0xFFFFFFFFFFFFFFFF for a non-positive value -mag: two's complement
Mask64Neg(mag) == Mask64(Add(Xor(Mask64(mag), [i \in 1..8 |-> 255]), <<1>>))

\* a < 2^bits
BelowPow2(a, bits) ==
    \A i \in 1..Len(a) :
        IF i - 1 < bits \div 8 THEN TRUE
        ELSE IF i - 1 = bits \div 8 THEN a[i] < Pow2(bits % 8)
        ELSE a[i] = 0

\* 0x9E3779B97F4A7C15
GOLDEN64 == <<21, 124, 74, 127, 185, 121, 55, 158>>

\* 0xBF58476D1CE4E5B9
MIX_A == <<185, 229, 228, 28, 109, 71, 88, 191>>

\* 0x94D049BB133111EB
MIX_B == <<235, 17, 49, 19, 187, 73, 208, 148>>

\* 0x9E3779B1
HASH_BAND == <<177, 121, 55, 158>>

\* 0x85EBCA77
HASH_X == <<119, 202, 235, 133>>

\* 0xC2B2AE3D
HASH_Y == <<61, 174, 178, 194>>

\* (value + 0x9E3779B97F4A7C15) & mask
MixStart(value) ==
    IF value.neg THEN Mask64(Add(Mask64Neg(value.mag), GOLDEN64))
    ELSE Mask64(Add(value.mag, GOLDEN64))

_mix64_unmasked(value) ==
    LET v1 == MixStart(value)
        v2 == Mask64(Mul(Xor(v1, Shr(v1, 30)), MIX_A))
        v3 == Mul(Xor(v2, Shr(v2, 27)), MIX_B)
    IN  Xor(v3, Shr(v3, 31))

_mix64(value) ==
    LET v1 == MixStart(value)
        v2 == Mask64(Mul(Xor(v1, Shr(v1, 30)), MIX_A))
        v3 == Mask64(Mul(Xor(v2, Shr(v2, 27)), MIX_B))
    IN  Xor(v3, Shr(v3, 31))

\* _unit_from returns this numerator over 2^53: the division of an integer
\* below 2^53 by 2.0^53 is exact
_unit_from(value) == Shr(_mix64(value), 11)

DigitChars == {"0", "1", "2", "3", "4", "5", "6", "7", "8", "9"}

\* int(mask_char)
DigitOf(ch) ==
    CASE ch = "0" -> 0 [] ch = "1" -> 1 [] ch = "2" -> 2 [] ch = "3" -> 3
      [] ch = "4" -> 4 [] ch = "5" -> 5 [] ch = "6" -> 6 [] ch = "7" -> 7
      [] ch = "8" -> 8 [] ch = "9" -> 9

\* A random-band config.  Numbers are in units of 1/4000, a missing key is
\* {}, and an entry of "bands" is a dict or something else (isDict FALSE).
BandDict(l_min, l_max, s_min, s_max) ==
    [isDict |-> TRUE, l_min |-> l_min, l_max |-> l_max, s_min |-> s_min, s_max |-> s_max]

NoBandEntry == BandDict({}, {}, {}, {})

NotADict == [isDict |-> FALSE, l_min |-> {}, l_max |-> {}, s_min |-> {}, s_max |-> {}]

EmptyConfig ==
    [s_min |-> {}, s_max |-> {}, l_bright_min |-> {}, l_bright_max |-> {},
     l_dark_min |-> {}, l_dark_max |-> {}, bands |-> {}]

ForestConfig ==
    [s_min |-> {2000}, s_max |-> {}, l_bright_min |-> {}, l_bright_max |-> {3600},
     l_dark_min |-> {}, l_dark_max |-> {},
     bands |-> {[d \in DigitChars |->
                    IF d = "5" THEN BandDict({1200}, {2400}, {}, {})
                    ELSE IF d = "3" THEN BandDict({}, {}, {800}, {4400})
                    ELSE IF d \in {"2", "7"} THEN NotADict
                    ELSE NoBandEntry]}]

RandomConfigs == {EmptyConfig, ForestConfig}

\* not random_config
ConfigIsEmpty(c) ==
    /\ c.s_min = {} /\ c.s_max = {} /\ c.bands = {}
    /\ c.l_bright_min = {} /\ c.l_bright_max = {}
    /\ c.l_dark_min = {} /\ c.l_dark_max = {}

_random_band_ranges(band, random_config) ==
    LET band_entry ==
            IF random_config.bands = {} THEN NoBandEntry
            ELSE (CHOOSE b \in random_config.bands : TRUE)[ToString(band)]
        s_min0 == Get(random_config.s_min, 1600)
        s_max0 == Get(random_config.s_max, 3600)
        bright_min == Get(random_config.l_bright_min, 3000)
        bright_max == Get(random_config.l_bright_max, 3800)
        dark_min == Get(random_config.l_dark_min, 720)
        dark_max == Get(random_config.l_dark_max, 1800)
        rank == band % 5
        l_min0 == IF band_entry.isDict THEN Get(band_entry.l_min, 800)
                  ELSE bright_min + ((dark_min - bright_min) * rank) \div 4
        l_max0 == IF band_entry.isDict THEN Get(band_entry.l_max, 3200)
                  ELSE bright_max + ((dark_max - bright_max) * rank) \div 4
        s_min1 == IF band_entry.isDict THEN Get(band_entry.s_min, s_min0) ELSE s_min0
        s_max1 == IF band_entry.isDict THEN Get(band_entry.s_max, s_max0) ELSE s_max0
        l_min == Max(0, Min(4000, l_min0))
        l_max == Max(l_min, Min(4000, l_max0))
        s_min == Max(0, Min(4000, s_min1))
        s_max == Max(s_min, Min(4000, s_max1))
    IN  <<l_min, l_max, s_min, s_max>>

\* the sampling seed of _random_color_code, were every band sampled per cell
random_color_seed_per_cell(band, x, y, seed_base) ==
    Norm(Xor(Xor(Xor(Shl(seed_base, 1), Mul(NatLimbs(band), HASH_BAND)),
                 Mul(NatLimbs(x), HASH_X)),
             Mul(NatLimbs(y), HASH_Y)))

\* the sampling seed of _random_color_code
random_color_seed(band, x, y, seed_base) ==
    IF band < 5 THEN
        Norm(Xor(Xor(Xor(Shl(seed_base, 1), Mul(NatLimbs(band), HASH_BAND)),
                     Mul(NatLimbs(x), HASH_X)),
                 Mul(NatLimbs(y), HASH_Y)))
    ELSE
        Norm(Xor(Shl(NatLimbs(session), 1), Mul(NatLimbs(band), HASH_BAND)))

\* _random_color_code returns "" ({} here) or the escape code of the colour
\* hls_to_rgb(h, l, s); the code is a function of the three unit samples and
\* the band's ranges, which stand for it here
_random_color_code(mask_char, x, y, seed_base, random_config) ==
    IF mask_char \notin DigitChars \/ ConfigIsEmpty(random_config) THEN {}
    ELSE LET band == DigitOf(mask_char)
             seed == random_color_seed(band, x, y, seed_base)
         IN  {[ranges |-> _random_band_ranges(band, random_config),
               h |-> _unit_from(Pos(seed)),
               s |-> _unit_from(Pos(Add(seed, <<1>>))),
               l |-> _unit_from(Pos(Add(seed, <<2>>)))]}

\* ord(mask_char)
ord(ch) == CASE ch = "w" -> 119 [] ch = "k" -> 107

\* color_rgb_by_key: the palette entries with a parsed hex code
color_rgb_by_key(ch) == CASE ch = "w" -> <<255, 255, 255>> [] ch = "k" -> <<0, 0, 0>>

\* the seed of a jittered cell, were the tick always folded in
jitter_seed_always_ticks(c, tick) ==
    Norm(Xor(Xor(Xor(Xor(c.seed_base, Shl(NatLimbs(ord(c.mask_char)), 4)),
                     Mul(NatLimbs(c.x), HASH_X)),
                 Mul(NatLimbs(c.y), HASH_Y)),
             Mul(NatLimbs(tick), HASH_BAND)))

\* the seed of a jittered cell (apply_color_mask and apply_mask)
jitter_seed(c, tick) ==
    LET seed == Xor(Xor(Xor(c.seed_base, Shl(NatLimbs(ord(c.mask_char)), 4)),
                        Mul(NatLimbs(c.x), HASH_X)),
                    Mul(NatLimbs(c.y), HASH_Y))
    IN  IF ~c.jitter_stability THEN Norm(Xor(seed, Mul(NatLimbs(tick), HASH_BAND)))
        ELSE Norm(seed)

\* f"\033[38;2;{r};{g};{b}m"
RgbCode(r, g, b) == <<"ESC[38;2;", r, ";", g, ";", b, "m">>

BitLen(n) ==
    IF n = 0 THEN 0 ELSE IF n < 2 THEN 1 ELSE IF n < 4 THEN 2 ELSE IF n < 8 THEN 3
    ELSE IF n < 16 THEN 4 ELSE IF n < 32 THEN 5 ELSE IF n < 64 THEN 6
    ELSE IF n < 128 THEN 7 ELSE 8

\* int(l * 255) for the float l = numer / 2^53: the product is rounded to 53
\* significant bits (half of the last kept bit is added) and then truncated
Channel(numer) ==
    LET P == Mul(numer, <<255>>)
        n == Limb(Shr(P, 53), 1)
        half == IF n = 0 THEN 0 ELSE Pow2(BitLen(n) - 1)
    IN  Limb(Shr(Add(P, <<half>>), 53), 1)

\* 2^52 and 2^53
TWO52 == <<0, 0, 0, 0, 0, 0, 16>>

TWO53 == <<0, 0, 0, 0, 0, 0, 32>>

\* _jitter_color_code for a base (v, v, v) with v in {0, 255} and a jitter
\* of jitter_halves / 2 <= 1: rgb_to_hls gives h = s = 0 and l = v / 255,
\* hls_to_rgb gives r = g = b = l, and every float operation up to
\* l * 255 is exact.  Lightness is a numerator over 2^53.
_jitter_color_code(base_rgb, jitter_halves, seed) ==
    IF jitter_halves <= 0 THEN RgbCode(base_rgb[1], base_rgb[2], base_rgb[3])
    ELSE LET u == _unit_from(Pos(seed))
             l0 == IF base_rgb[1] = 255 THEN TWO53 ELSE <<>>
             up == ~Less(u, TWO52)
             mag == Mul(IF up THEN Sub(u, TWO52) ELSE Sub(TWO52, u),
                        <<jitter_halves>>)
             l == IF up THEN (IF Less(TWO53, Add(l0, mag)) THEN TWO53 ELSE Add(l0, mag))
                  ELSE (IF Less(l0, mag) THEN <<>> ELSE Sub(l0, mag))
             c == Channel(l)
         IN  RgbCode(c, c, c)

NoCell ==
    [mask_char |-> "", x |-> 0, y |-> 0, seed_base |-> <<>>, variation |-> 0,
     jitter_stability |-> FALSE]

IdleColour ==
    /\ session = 0
    /\ prngSeed = Pos(<<>>)
    /\ prngOut = <<>>
    /\ calls = <<>>
    /\ jitterCell = NoCell
    /\ renders = <<>>

(***************************************************************************)
(* rendering.py: the palette (color_by_key) and the masked cell            *)
(*                                                                         *)
(* A palette string is a sequence of one-character strings; an escape code *)
(* is a sequence of string tokens that starts with ESC.                    *)
(***************************************************************************)
HexDigits == {"0", "1", "2", "3", "4", "5", "6", "7", "8", "9", "a", "b", "c", "d", "e", "f"}

HexVal(ch) ==
    CASE ch = "0" -> 0 [] ch = "1" -> 1 [] ch = "2" -> 2 [] ch = "3" -> 3
      [] ch = "4" -> 4 [] ch = "5" -> 5 [] ch = "6" -> 6 [] ch = "7" -> 7
      [] ch = "8" -> 8 [] ch = "9" -> 9 [] ch = "a" -> 10 [] ch = "b" -> 11
      [] ch = "c" -> 12 [] ch = "d" -> 13 [] ch = "e" -> 14 [] ch = "f" -> 15

\* int(pair, 16) of a two-character string: {} for ValueError.  int() takes
\* two digits, a sign and a digit, or a digit with a blank on either side.
IntBase16(pair) ==
    IF Len(pair) # 2 THEN {}
    ELSE IF pair[1] \in HexDigits /\ pair[2] \in HexDigits
        THEN {16 * HexVal(pair[1]) + HexVal(pair[2])}
    ELSE IF pair[1] \in {"+", " "} /\ pair[2] \in HexDigits THEN {HexVal(pair[2])}
    ELSE IF pair[1] = "-" /\ pair[2] \in HexDigits THEN {0 - HexVal(pair[2])}
    ELSE IF pair[1] \in HexDigits /\ pair[2] = " " THEN {HexVal(pair[1])}
    ELSE {}

RECURSIVE lstrip_char(_, _)
lstrip_char(s, c) ==
    IF s # <<>> /\ s[1] = c THEN lstrip_char(Tail(s), c) ELSE s

\* str.strip()
strip(s) == lstrip_char(rstrip(s), " ")

\* _hex_to_rgb: {} for None, {<<r, g, b>>} otherwise
_hex_to_rgb(hex_code) ==
    LET value == lstrip_char(hex_code, "#")
        r == IntBase16(SubSeq(value, 1, 2))
        g == IntBase16(SubSeq(value, 3, 4))
        b == IntBase16(SubSeq(value, 5, 6))
    IN  IF Len(value) # 6 THEN {}
        ELSE IF r = {} \/ g = {} \/ b = {} THEN {}
        ELSE {<<CHOOSE v \in r : TRUE, CHOOSE v \in g : TRUE, CHOOSE v \in b : TRUE>>}

\* truecolor: <<>> for "", the 24-bit escape code otherwise
truecolor(code) ==
    LET rgb == _hex_to_rgb(code)
    IN  IF rgb = {} THEN <<>>
        ELSE LET c == CHOOSE v \in rgb : TRUE
             IN  SGR(<<"38;2", ToString(c[1]), ToString(c[2]), ToString(c[3])>>)

RESET == SGR(<<"0">>)

DIM == SGR(<<"2">>)

FG_YELLOW == SGR(<<"3", "3">>)

FG_RED == SGR(<<"3", "1">>)

\* str.lower() on the letters the palette names use
lower(s) == [i \in 1..Len(s) |-> IF s[i] = "R" THEN "r" ELSE s[i]]

\* COLOR_BY_NAME.get(lowered, ANSI.FG_WHITE)
ColorByName(lowered) ==
    IF lowered = <<"r", "e", "d">> THEN FG_RED
    ELSE IF lowered = <<"g", "r", "e", "e", "n">> THEN FG_GREEN
    ELSE IF lowered = <<"y", "e", "l", "l", "o", "w">> THEN FG_YELLOW
    ELSE FG_WHITE

RECURSIVE find(_, _, _)
\* str.find from position i (1-based): 0 for -1
find(s, c, i) ==
    IF i > Len(s) THEN 0 ELSE IF s[i] = c THEN i ELSE find(s, c, i + 1)

\* A color_map entry: a dict (its "hex" and "name" when they are strings,
\* <<>> otherwise), a string (held in name) or anything else
DictEntry(hex, name) == [kind |-> "dict", hex |-> hex, name |-> name]

StrEntry(name) == [kind |-> "str", hex |-> <<>>, name |-> name]

OtherEntry == [kind |-> "other", hex |-> <<>>, name |-> <<>>]

\* the hex code the palette loop tries for an entry (<<>> when it has none)
EntryHexCode(entry) ==
    LET name == strip(entry.name)
        hex_code == strip(entry.hex)
        hex_start == find(name, "#", 1)
    IN  IF hex_code # <<>> THEN hex_code
        ELSE IF hex_start # 0 THEN SubSeq(name, hex_start, Len(name))
        ELSE <<>>

\* color_by_key[key] after the palette loop: {} when the key is not set
color_by_key(entry) ==
    IF entry.kind = "other" THEN {}
    ELSE LET lowered == lower(strip(entry.name))
             code == truecolor(EntryHexCode(entry))
         IN  IF code # <<>> THEN {code}
             ELSE IF lowered = <<"b", "r", "o", "w", "n">> THEN {FG_YELLOW \o DIM}
             ELSE IF lowered \in {<<"g", "r", "a", "y">>, <<"g", "r", "e", "y">>}
                 THEN {FG_WHITE \o DIM}
             ELSE {ColorByName(lowered)}

\* what apply_color_mask (render_venue_art, render_venue_objects) appends
\* for a cell ch whose mask character is the key of the entry
apply_color_mask_cell(entry, ch, art_color) ==
    LET code == color_by_key(entry)
    IN  IF code = {} THEN <<ch>>
        ELSE (CHOOSE c \in code : TRUE) \o <<ch>> \o RESET \o art_color

\* what render_scene_art gives that cell of an opponent row: without a
\* palette the row is not masked, apply_mask colours the cell otherwise
apply_mask_cell(entry, ch) ==
    LET code == color_by_key(entry)
    IN  IF code = {} THEN <<ch>>
        ELSE (CHOOSE c \in code : TRUE) \o <<ch>> \o RESET

NoEntry == [kind |-> "none", hex |-> <<>>, name |-> <<>>]

IdlePalette ==
    /\ colorEntry = NoEntry
    /\ maskSite = "none"
    /\ artColor = <<>>
    /\ cellOut = {}

(***************************************************************************)
(* rendering.py: animate_spell_overlay and the overlay target match        *)
(***************************************************************************)
\* a spell effect: frames is effect["frames"], loops is effect["loops"] ({} when missing);
\* is_list is isinstance(frames, list)
Effect(effect_frames, effect_loops) ==
    [frames |-> effect_frames, loops |-> effect_loops, is_list |-> TRUE]

\* an effect whose "frames" is a tuple of frames, not a list
TupleEffect(effect_frames, effect_loops) ==
    [frames |-> effect_frames, loops |-> effect_loops, is_list |-> FALSE]

\* isinstance(frames, list) and frames
IsFrameList(effect) == effect.is_list /\ effect.frames # <<>>

NoEffect == Effect(<<>>, {})

\* a loop count that ignores effect["loops"]
EffectLoopsOnce(effect) == 1

\* int(effect.get("loops", 1) or 1), then max(1, loops)
EffectLoops(effect) ==
    LET loops == IF effect.loops = {} \/ effect.loops = {0} THEN 1
                 ELSE CHOOSE n \in effect.loops : TRUE
    IN  Max(1, loops)

\* an overlay matcher that indexes the opponents as a Python list would:
\* a negative index counts from the end
OverlayTargetsWrapped(opps, overlay_target_index, overlay_effect, overlay_frame_index) ==
    {i \in 0..(Len(opps) - 1) :
        /\ opps[i + 1].art_lines # <<>>
        /\ IsFrameList(overlay_effect)
        /\ \E n \in overlay_target_index : n = i \/ n + Len(opps) = i
        /\ overlay_effect.frames[(overlay_frame_index % Len(overlay_effect.frames)) + 1] # <<>>}

\* render_scene_art: the opponents (0-based) whose block gets overlay_rows
OverlayTargets(opps, overlay_target_index, overlay_effect, overlay_frame_index) ==
    {i \in 0..(Len(opps) - 1) :
        /\ opps[i + 1].art_lines # <<>>
        /\ IsFrameList(overlay_effect)
        /\ overlay_target_index = {i}
        /\ overlay_effect.frames[(overlay_frame_index % Len(overlay_effect.frames)) + 1] # <<>>}

IdleOverlay ==
    /\ overlayPc = "idle"
    /\ overlayIndex = {}
    /\ overlayEffect = NoEffect
    /\ overlayLoop = 0
    /\ overlayFrameIndex = 0
    /\ overlayFrames = <<>>

(***************************************************************************)
(* render_scene_art: the layout of the opponent blocks in the gap.  The    *)
(* renderer is called with visible_indices, gap_override, flash_index and  *)
(* overlay_effect left at None and without manual lines; the opponents     *)
(* carry no color_map, so a block is painted with the opponent's           *)
(* art_color.                                                              *)
(***************************************************************************)
ArtOpponent(art, hp, color) ==
    [art_lines |-> art, hp |-> hp, max_hp |-> 3, melted |-> FALSE, art_color |-> color]

\* bool(art_line.strip()) is false
IsBlankText(s) == \A k \in 1..Len(s) : s[k] = " "

\* (" " * inter_pad).join(segments)
RECURSIVE JoinSegments(_)
JoinSegments(segments) ==
    IF segments = <<>> THEN <<>>
    ELSE IF Len(segments) = 1 THEN segments[1]
    ELSE segments[1] \o Spaces(2) \o JoinSegments(Tail(segments))

\* the segments of one row of the gap: row row_index (1-based) of every block
GapSegments(blocks, opps, row_index, art_color) ==
    [b \in 1..Len(blocks) |->
        LET block_width == OPPONENT_ART_WIDTH
            color == opps[blocks[b].index + 1].art_color
            art_line == pad_ansi(IF row_index <= Len(blocks[b].lines)
                                 THEN blocks[b].lines[row_index] ELSE <<>>, block_width)
        IN  IF ~IsBlankText(art_line)
            THEN (IF color # <<>> THEN color \o art_line \o art_color ELSE art_line)
            ELSE Spaces(block_width)]

\* one row of the gap that holds opponent rows: gap_fill, the gap width the
\* row leaves behind, and the visible column at which every block starts
GapRow(blocks, opps, row_index, gap_width0, art_color, widen) ==
    LET segments == GapSegments(blocks, opps, row_index, art_color)
        inter_pad == 2
        gap_pad == 2
        content == JoinSegments(segments)
        visible_width == Len(strip_ansi(content))
        content_width == gap_pad * 2 + visible_width
        gap_width == IF widen THEN Max(gap_width0, content_width) ELSE gap_width0
        pad_left == Max(0, (gap_width - content_width) \div 2)
        pad_right == Max(0, gap_width - content_width - pad_left)
    IN  [fill |-> Spaces(pad_left) \o Spaces(gap_pad) \o content
                      \o Spaces(gap_pad) \o Spaces(pad_right),
         gap_width |-> gap_width,
         offsets |-> [b \in 1..Len(segments) |->
                         pad_left + gap_pad
                             + (IF b = 1 THEN 0
                                ELSE Len(strip_ansi(JoinSegments(SubSeq(segments, 1, b - 1))))
                                         + inter_pad)]]

\* a mirrored layout that keeps the gap it is given, however many blocks it holds
MirroredGapsUnwidened(sc, blocks, opps, gap_width0, art_color) ==
    LET n == Len(blocks)
        max_opp_rows == MaxRowsOf(blocks)
        right_rows == IF sc.right_rows = 0 THEN sc.left_rows ELSE sc.right_rows
        max_rows == Max(Max(sc.left_rows, right_rows), max_opp_rows)
        start_row == IF max_opp_rows # 0 THEN max_rows - max_opp_rows ELSE 0
    IN  [r \in 1..max_rows |->
            LET i == r - 1
            IN  IF n > 0 /\ start_row <= i /\ i < start_row + max_opp_rows
                THEN GapRow(blocks, opps, i - start_row + 1, gap_width0, art_color, FALSE)
                ELSE [fill |-> Spaces(gap_width0), gap_width |-> gap_width0,
                      offsets |-> <<>>]]

\* the mirrored layout (scene_data["left"] is set): the gap of every output row
MirroredGaps(sc, blocks, opps, gap_width0, art_color) ==
    LET n == Len(blocks)
        content_width == 2 * 2 + OPPONENT_ART_WIDTH * n + 2 * (n - 1)
        gap_width == IF n > 0 THEN Max(gap_width0, content_width) ELSE gap_width0
        max_opp_rows == MaxRowsOf(blocks)
        right_rows == IF sc.right_rows = 0 THEN sc.left_rows ELSE sc.right_rows
        max_rows == Max(Max(sc.left_rows, right_rows), max_opp_rows)
        start_row == IF max_opp_rows # 0 THEN max_rows - max_opp_rows ELSE 0
    IN  [r \in 1..max_rows |->
            LET i == r - 1
            IN  IF n > 0 /\ start_row <= i /\ i < start_row + max_opp_rows
                THEN GapRow(blocks, opps, i - start_row + 1, gap_width, art_color, FALSE)
                ELSE [fill |-> Spaces(gap_width), gap_width |-> gap_width, offsets |-> <<>>]]

\* the forest template (scene_data["art"], one {GAP} per row): the gap of
\* every output row from row i (0-based) on; gap_width is carried from row to row
RECURSIVE ForestGaps(_, _, _, _, _, _)
ForestGaps(sc, blocks, opps, i, gap_width, art_color) ==
    IF i >= sc.art_rows THEN <<>>
    ELSE LET max_opp_rows == MaxRowsOf(blocks)
             start_row == sc.art_rows - max_opp_rows
             row == IF blocks # <<>> /\ start_row <= i /\ i < start_row + max_opp_rows
                    THEN GapRow(blocks, opps, i - start_row + 1, gap_width, art_color, TRUE)
                    ELSE [fill |-> Spaces(gap_width), gap_width |-> gap_width,
                          offsets |-> <<>>]
         IN  <<row>> \o ForestGaps(sc, blocks, opps, i + 1, row.gap_width, art_color)

\* render_scene_art: the gap of every row of the art it returns
\* (gap_override is {} for None)
render_scene_art(sc, opps, gap_override, include_bars, art_color) ==
    LET blocks == OpponentBlocks(opps, {"all"}, include_bars, {})
        gap_width == IF gap_override # {} THEN CHOOSE n \in gap_override : TRUE
                     ELSE GapBase(sc)
    IN  IF sc.left \/ sc.objects_left
        THEN MirroredGaps(sc, blocks, opps, gap_width, art_color)
        ELSE ForestGaps(sc, blocks, opps, 0, gap_width, art_color)

\* an art scene: left_rows / right_rows are the lengths of scene_data["left"]
\* and scene_data["right"], art_rows the length of scene_data["art"]
ArtScene(left_rows, right_rows, art_rows, gap_min, gap_width) ==
    [present |-> TRUE, left |-> left_rows > 0, objects_left |-> FALSE,
     gap_min |-> gap_min, gap_width |-> gap_width,
     left_rows |-> left_rows, right_rows |-> right_rows, art_rows |-> art_rows]

NoArtScene == ArtScene(0, 0, 0, {}, {})

IdleArt ==
    /\ artScene = NoArtScene
    /\ artOpponents = <<>>
    /\ artBars = FALSE
    /\ artRenders = <<>>

(***************************************************************************)
(* render_frame: the split of the body rows between the art, the status    *)
(* lines and the narrative.  A line is the serial number of the message    *)
(* it carries (0 for the arrival line), so a larger number was added       *)
(* later.                                                                  *)
(***************************************************************************)
max_lines == 6

\* status_lines[-max_status:] when there are more than max_status of them
\* (the slice [-0:] is the whole list)
StatusCount(body_height, art_count, status_len) ==
    LET divider_count == IF art_count > 0 THEN 1 ELSE 0
        max_status == Max(0, body_height - art_count - divider_count)
    IN  IF status_len > max_status
        THEN (IF max_status = 0 THEN status_len ELSE max_status)
        ELSE status_len

narrative_space(body_height, art_count, status_len) ==
    LET divider_count == IF art_count > 0 THEN 1 ELSE 0
    IN  Max(0, body_height - art_count - divider_count
                   - StatusCount(body_height, art_count, status_len))

\* the selection that keeps the head of the body in every location
visible_lines_head(location, body_lines, space) ==
    SubSeq(body_lines, 1, Min(space, Len(body_lines)))

\* frame.body_lines[-narrative_space:] if narrative_space > 0 else [] in the
\* Forest, frame.body_lines[:narrative_space] elsewhere
visible_lines(location, body_lines, space) ==
    IF location = "Forest"
    THEN (IF space > 0
          THEN SubSeq(body_lines, Max(1, Len(body_lines) - space + 1), Len(body_lines))
          ELSE <<>>)
    ELSE SubSeq(body_lines, 1, Min(space, Len(body_lines)))

\* render_scene_frame: body = [arrival line] + the lines of the message, which
\* _status_message makes the battle log in the Forest and last_message elsewhere
FrameBody(location, log, message) ==
    IF location = "Forest" /\ log # <<>> THEN <<0>> \o log
    ELSE IF message # 0 THEN <<0, message>>
    ELSE <<0>>

IdleFrame ==
    /\ frameLocation = "Town"
    /\ battle_log = <<>>
    /\ last_message = 0
    /\ frameShown = {}

(***************************************************************************)
(* scene_commands: the commands a scene offers.  A command is a record of  *)
(* its key ("" when the key is missing), its when condition ("" when it    *)
(* has none) and its command id.                                           *)
(***************************************************************************)
Command(key, when, id) == [key |-> key, when |-> when, command |-> id]

\* str(command.get("key", "")).lower() on the keys the commands use
lower_key(key) ==
    LET upper == <<"A", "F", "H", "I", "M", "N", "S", "T", "X", "Z">>
        lowered == <<"a", "f", "h", "i", "m", "n", "s", "t", "x", "z">>
        at == {k \in 1..Len(upper) : upper[k] = key}
    IN  IF at = {} THEN key ELSE lowered[CHOOSE k \in at : TRUE]

RECURSIVE filter_commands(_, _, _)
filter_commands(commands, player, opps) ==
    IF commands = <<>> THEN <<>>
    ELSE LET command == Head(commands)
             has_opponents == \E k \in 1..Len(opps) : opps[k].hp > 0
             skip ==
                 \/ command.when = "has_opponents" /\ ~has_opponents
                 \/ command.when = "no_opponents" /\ has_opponents
                 \/ command.when = "needs_rest"
                        /\ ~(player.hp < player.max_hp \/ player.mp < player.max_mp)
                 \/ command.when = "has_save" /\ ~player.has_save
         IN  (IF skip THEN <<>> ELSE <<command>>)
                 \o filter_commands(Tail(commands), player, opps)

\* the loop of scene_commands over scene_list + global_list
RECURSIVE MergeCommands(_, _, _, _)
MergeCommands(commands, include_hidden, seen, merged) ==
    IF commands = <<>> THEN merged
    ELSE LET command == Head(commands)
             key == lower_key(command.key)
         IN  IF ~include_hidden /\ command.key = "_"
             THEN MergeCommands(Tail(commands), include_hidden, seen, merged)
             ELSE IF key = "" \/ key \in seen
             THEN MergeCommands(Tail(commands), include_hidden, seen, merged)
             ELSE MergeCommands(Tail(commands), include_hidden, seen \cup {key},
                                Append(merged, command))

\* scene_commands that adds the global commands on the title screen too
scene_commands_all_scenes(scene_list, global_commands, scene_id, player, opps, include_hidden) ==
    MergeCommands(filter_commands(scene_list, player, opps)
                      \o filter_commands(global_commands, player, opps),
                  include_hidden, {}, <<>>)

scene_commands(scene_list, global_commands, scene_id, player, opps, include_hidden) ==
    LET global_list == IF scene_id = "title" THEN <<>>
                       ELSE filter_commands(global_commands, player, opps)
    IN  MergeCommands(filter_commands(scene_list, player, opps) \o global_list,
                      include_hidden, {}, <<>>)

CommandPlayer(hp, has_save) ==
    [hp |-> hp, max_hp |-> 2, mp |-> 1, max_mp |-> 1, has_save |-> has_save]

IdleCommands ==
    /\ cmdScene = [id |-> "title", commands |-> <<>>]
    /\ cmdGlobal = <<>>
    /\ cmdPlayer = CommandPlayer(2, FALSE)
    /\ cmdOpponents = <<>>
    /\ cmdResult = {}

(***************************************************************************)
(* handle_command: ENTER_VENUE and ENTER_SCENE outside the Title screen.   *)
(* The CommandState is a record of the fields the two commands read or     *)
(* write; an optional value is a set with at most one element.             *)
(***************************************************************************)
\* a scene command with a target ({} when it has none)
TargetCommand(key, id, target) ==
    [key |-> key, when |-> "", command |-> id, target |-> target]

\* scenes.json: the commands of the two scenes
SceneCommandsOf(scene_id) ==
    IF scene_id = "town"
    THEN <<TargetCommand("F", "ENTER_SCENE", {"forest"}),
           TargetCommand("S", "ENTER_VENUE", {"town_shop"}),
           TargetCommand("H", "ENTER_VENUE", {"town_hall"}),
           TargetCommand("I", "ENTER_VENUE", {"town_inn"}),
           TargetCommand("X", "ENTER_VENUE", {"town_bank"}),
           TargetCommand("Z", "ENTER_VENUE", {}),
           TargetCommand("M", "ENTER_SCENE", {"moon"})>>
    ELSE <<TargetCommand("F", "ENTER_SCENE", {"forest"}),
           TargetCommand("T", "ENTER_SCENE", {"town"}),
           TargetCommand("S", "ENTER_VENUE", {"town_shop"})>>

\* venues.json: venue.get("welcome_message", default)
WelcomeMessage(venue_id, default) ==
    IF venue_id = "town_shop" THEN <<"Welcome to the shop.">>
    ELSE IF venue_id = "town_hall" THEN <<"Welcome to the hall.">>
    ELSE default

RECURSIVE FirstTarget(_, _, _)
FirstTarget(commands_list, command_id, key) ==
    IF commands_list = <<>> THEN {}
    ELSE LET command == Head(commands_list)
             cmd_key == lower_key(command.key)
         IN  IF command.command # command_id
             THEN FirstTarget(Tail(commands_list), command_id, key)
             ELSE IF key # "" /\ cmd_key # "" /\ cmd_key # lower_key(key)
             THEN FirstTarget(Tail(commands_list), command_id, key)
             ELSE command.target

\* key is "" for None
_command_target(st, command_id, key) ==
    LET scene_id == IF st.location = "Town" THEN "town" ELSE "forest"
        player == [hp |-> 1, max_hp |-> 1, mp |-> 0, max_mp |-> 0, has_save |-> FALSE]
    IN  FirstTarget(scene_commands(SceneCommandsOf(scene_id), <<>>, scene_id, player,
                                   st.opponents, FALSE),
                    command_id, key)

\* an ENTER_VENUE branch that leaves inventory_mode and spell_mode as they are
EnterVenueKeepsMenus(st, venue_id) ==
    IF venue_id = {} THEN [state |-> st, handled |-> FALSE]
    ELSE LET v == CHOOSE v \in venue_id : TRUE
         IN  IF v \notin {"town_shop", "town_hall", "town_inn"}
             THEN [state |-> st, handled |-> FALSE]
             ELSE [state |-> [st EXCEPT !.shop_mode = (v = "town_shop"),
                                        !.hall_mode = (v = "town_hall"),
                                        !.inn_mode = (v = "town_inn"),
                                        !.last_message = WelcomeMessage(v, st.last_message)],
                   handled |-> TRUE]

\* the ENTER_VENUE branch of handle_command: the state it leaves and what it returns
EnterVenue(st, venue_id) ==
    IF venue_id = {} THEN [state |-> st, handled |-> FALSE]
    ELSE LET v == CHOOSE v \in venue_id : TRUE
             flags == IF v = "town_shop"
                      THEN [st EXCEPT !.shop_mode = TRUE, !.hall_mode = FALSE,
                                      !.inn_mode = FALSE, !.inventory_mode = FALSE,
                                      !.spell_mode = FALSE]
                      ELSE IF v = "town_hall"
                      THEN [st EXCEPT !.hall_mode = TRUE, !.hall_view = "menu",
                                      !.shop_mode = FALSE, !.inn_mode = FALSE,
                                      !.inventory_mode = FALSE, !.spell_mode = FALSE]
                      ELSE [st EXCEPT !.inn_mode = TRUE, !.shop_mode = FALSE,
                                      !.hall_mode = FALSE, !.inventory_mode = FALSE,
                                      !.spell_mode = FALSE]
         IN  IF v \notin {"town_shop", "town_hall", "town_inn"}
             THEN [state |-> st, handled |-> FALSE]
             ELSE [state |-> [flags EXCEPT !.last_message = WelcomeMessage(v, st.last_message)],
                   handled |-> TRUE]

\* primary_opponent: there is an opponent with hp > 0, and the first such one
HasPrimary(opps) == \E k \in 1..Len(opps) : opps[k].hp > 0

primary_opponent(opps) ==
    opps[CHOOSE k \in 1..Len(opps) :
             opps[k].hp > 0 /\ \A j \in 1..(k - 1) : opps[j].hp <= 0]

NoLoot == [xp |-> 0, gold |-> 0]

AllModesOff(st) ==
    [st EXCEPT !.shop_mode = FALSE, !.inventory_mode = FALSE, !.hall_mode = FALSE,
               !.inn_mode = FALSE, !.spell_mode = FALSE]

\* the message after a spawn
SpawnMessage(spawned) ==
    IF spawned # <<>> THEN <<"A", spawned[1].name, "appears.">>
    ELSE <<"All is quiet. No enemies in sight.">>

\* _enter_scene that walks into the forest without spawning
_enter_scene_no_spawn(scene_id, st, spawned) ==
    IF scene_id = "forest" /\ st.location # "Forest"
    THEN [state |-> [AllModesOff(st) EXCEPT !.location = "Forest", !.loot_bank = NoLoot,
                                            !.last_message = SpawnMessage(st.opponents)],
          handled |-> TRUE, saved |-> TRUE, built |-> TRUE]
    ELSE [state |-> st, handled |-> FALSE, saved |-> FALSE, built |-> FALSE]

\* _enter_scene: the state it leaves, what it returns, whether it saved the
\* player and whether it rebuilt the forest strips; spawned is what
\* opponents_data.spawn returns when it is called
_enter_scene(scene_id, st, spawned) ==
    IF scene_id = "town"
    THEN IF st.location = "Town"
         THEN [state |-> [st EXCEPT !.last_message = <<"You are already in town.">>],
               handled |-> TRUE, saved |-> FALSE, built |-> FALSE]
         ELSE [state |-> [AllModesOff(st) EXCEPT !.location = "Town", !.opponents = <<>>,
                                                 !.loot_bank = NoLoot,
                                                 !.last_message = <<"You return to town.">>],
               handled |-> TRUE, saved |-> TRUE, built |-> FALSE]
    ELSE IF scene_id = "forest"
    THEN IF st.location # "Forest"
         THEN [state |-> [AllModesOff(st) EXCEPT !.location = "Forest",
                                                 !.opponents = spawned,
                                                 !.loot_bank = NoLoot,
                                                 !.last_message = SpawnMessage(spawned)],
               handled |-> TRUE, saved |-> TRUE, built |-> TRUE]
         ELSE IF HasPrimary(st.opponents)
         THEN [state |-> [st EXCEPT !.last_message =
                              <<"You are already facing a",
                                primary_opponent(st.opponents).name>>],
               handled |-> TRUE, saved |-> TRUE, built |-> TRUE]
         ELSE [state |-> [st EXCEPT !.opponents = spawned, !.loot_bank = NoLoot,
                                    !.last_message = SpawnMessage(spawned)],
               handled |-> TRUE, saved |-> TRUE, built |-> TRUE]
    ELSE [state |-> st, handled |-> FALSE, saved |-> FALSE, built |-> FALSE]

CommandState(location, opps, loot, message, modes, hall_view) ==
    [location |-> location, opponents |-> opps, loot_bank |-> loot, last_message |-> message,
     shop_mode |-> modes[1], inventory_mode |-> modes[2], hall_mode |-> modes[3],
     inn_mode |-> modes[4], spell_mode |-> modes[5], hall_view |-> hall_view]

IdleRouter ==
    /\ state = CommandState("Town", <<>>, NoLoot, <<>>, <<FALSE, FALSE, FALSE, FALSE, FALSE>>,
                            "menu")
    /\ routerCall = {}
    /\ routerCtx = [saved |-> {}, forest_strips |-> {}, forest_gap_min |-> {}]

(***************************************************************************)
(* SpellsData: the spell table is a dict, modelled as the sequence of its  *)
(* items in insertion order; a spell is a record of its optional           *)
(* command_id and menu_key ({} when the key is missing).                   *)
(***************************************************************************)
Spell(spell_id, command_id, menu_key) ==
    [spell_id |-> spell_id, spell |-> [command_id |-> command_id, menu_key |-> menu_key]]

\* a lookup that returns the last spell that matches
RECURSIVE by_command_id_last(_, _)
by_command_id_last(table, command_id) ==
    IF table = <<>> THEN {}
    ELSE IF table[Len(table)].spell.command_id = {command_id}
    THEN {<<table[Len(table)].spell_id, table[Len(table)].spell>>}
    ELSE by_command_id_last(SubSeq(table, 1, Len(table) - 1), command_id)

\* the result is {} for None and {<<spell_id, spell>>} for a pair
RECURSIVE by_command_id(_, _)
by_command_id(table, command_id) ==
    IF table = <<>> THEN {}
    ELSE IF Head(table).spell.command_id = {command_id}
    THEN {<<Head(table).spell_id, Head(table).spell>>}
    ELSE by_command_id(Tail(table), command_id)

RECURSIVE by_menu_key(_, _)
by_menu_key(table, menu_key) ==
    IF table = <<>> THEN {}
    ELSE IF Head(table).spell.menu_key = {menu_key}
    THEN {<<Head(table).spell_id, Head(table).spell>>}
    ELSE by_menu_key(Tail(table), menu_key)

IdleSpells ==
    /\ spells = <<>>
    /\ lookup = {}

(***************************************************************************)
(* animate_scene_gap.  The gap of a step is computed on exact fractions;   *)
(* for steps up to 8 and gaps up to 80 the float arithmetic of the code    *)
(* gives the same integers.                                                *)
(***************************************************************************)
\* round(num / den) for den > 0: the nearest integer, a half going to the
\* even neighbour
round(num, den) ==
    LET q == num \div den
        rem == num % den
    IN  IF 2 * rem < den THEN q
        ELSE IF 2 * rem > den THEN q + 1
        ELSE IF q % 2 = 0 THEN q ELSE q + 1

\* the gap of a step cut off instead of rounded
step_gap_truncated(start_gap, end_gap, step, steps) ==
    (start_gap * steps + (end_gap - start_gap) * step) \div steps

\* t = step / steps; gap = int(round(start_gap + (end_gap - start_gap) * t))
step_gap(start_gap, end_gap, step, steps) ==
    round(start_gap * steps + (end_gap - start_gap) * step, steps)

IdleAnim ==
    /\ animPc = "idle"
    /\ animArgs = [start_gap |-> 0, end_gap |-> 0, steps |-> 0]
    /\ animStep = 0
    /\ animFrames = <<>>

(***************************************************************************)
(* render_scene_art: the spell overlay on the block of the targeted        *)
(* opponent.  Cells are 0-based (row, column) pairs inside the block; a    *)
(* block row is given by its visible text.  The renderer is called without *)
(* visible_indices, manual lines and flash.                                *)
(***************************************************************************)
\* an opponent with a colour mask
MaskedOpponent(art, hp, color_map) ==
    [art_lines |-> art, hp |-> hp, max_hp |-> 3, melted |-> FALSE,
     art_color |-> <<>>, color_map |-> color_map]

\* has_mask = bool(opponent.color_map) and bool(color_by_key)
has_mask(o, palette) == o.color_map # <<>> /\ palette

\* mask_lines: the colour map centred as the sprite is, and "" for the bar row
mask_lines(o, palette, include_bars) ==
    IF ~has_mask(o, palette) THEN <<>>
    ELSE CenterBlock([k \in 1..Len(o.color_map) |->
                         Slice(o.color_map[k], 1, OPPONENT_ART_WIDTH)],
                     OPPONENT_ART_WIDTH)
             \o (IF include_bars THEN <<<<>>>> ELSE <<>>)

\* overlay_frame when the effect applies to opponent i, <<>> otherwise
overlay_frame(i, overlay_target_index, overlay_effect, overlay_frame_index) ==
    IF overlay_target_index = {i} /\ IsFrameList(overlay_effect)
    THEN overlay_effect.frames[(overlay_frame_index % Len(overlay_effect.frames)) + 1]
    ELSE <<>>

\* overlay_rows: the cells the overlay frame takes in the block, {} for None
overlay_rows(art_lines, frame, include_bars) ==
    LET overlay_height == Len(frame)
        overlay_width == MaxLenOf(frame)
        bar_lines == IF include_bars THEN 1 ELSE 0
        art_height == Max(0, Len(art_lines) - bar_lines)
        row_start == Max(0, (art_height - overlay_height) \div 2)
        col_start == Max(0, (OPPONENT_ART_WIDTH - overlay_width) \div 2)
    IN  {[row |-> row_start + r_idx, col |-> col_start + c_idx,
          ch |-> frame[r_idx + 1][c_idx + 1]] :
            <<r_idx, c_idx>> \in
                {rc \in (0..(overlay_height - 1)) \X (0..(overlay_width - 1)) :
                    /\ rc[2] < Len(frame[rc[1] + 1])
                    /\ frame[rc[1] + 1][rc[2] + 1] # " "
                    /\ row_start + rc[1] < art_height
                    /\ col_start + rc[2] < OPPONENT_ART_WIDTH}}

\* apply_mask: the visible text of one block row; cells is overlay_rows
apply_mask(line, mask, row_index, cells) ==
    IF mask = <<>> THEN line
    ELSE [k \in 1..Len(line) |->
             IF \E c \in cells : c.row = row_index /\ c.col = k - 1
             THEN (CHOOSE c \in cells : c.row = row_index /\ c.col = k - 1).ch
             ELSE line[k]]

\* the visible text of the rows of the block of opponent i (0-based)
OverlayBlock(o, i, palette, include_bars, overlay_target_index, overlay_effect, overlay_frame_index) ==
    LET art_lines == BlockLines(o, i, {"all"}, include_bars, {})
        masks == mask_lines(o, palette, include_bars)
        frame == overlay_frame(i, overlay_target_index, overlay_effect, overlay_frame_index)
        cells == overlay_rows(art_lines, frame, include_bars)
    IN  [idx \in 1..Len(art_lines) |->
            IF has_mask(o, palette)
            THEN apply_mask(strip_ansi(art_lines[idx]),
                            IF idx <= Len(masks) THEN masks[idx] ELSE <<>>,
                            idx - 1, cells)
            ELSE strip_ansi(art_lines[idx])]

\* opponent_blocks of one call, by the opponents that have art
OverlayBlocks(opps, palette, include_bars, overlay_target_index, overlay_effect, overlay_frame_index) ==
    LET idx == WithArt(opps, 1)
    IN  [b \in 1..Len(idx) |->
            [index |-> idx[b],
             lines |-> OverlayBlock(opps[idx[b] + 1], idx[b], palette, include_bars,
                                    overlay_target_index, overlay_effect,
                                    overlay_frame_index)]]

IdlePlace ==
    /\ placeOpponents = <<>>
    /\ placePalette = FALSE
    /\ placeRender = {}

(***************************************************************************)
(* render_frame: the rows of the panel.  A row is given by the text        *)
(* between its colour wrappers: _gradient_char, _gradient_segment and      *)
(* _apply_bg put complete colour sequences around single characters and    *)
(* copy every ESC [ ... m run unchanged, and _compose_line returns its     *)
(* argument.                                                               *)
(***************************************************************************)
\* the width of the panel.  SCREEN_WIDTH is 100; render_frame reads it only as
\* SCREEN_WIDTH and SCREEN_WIDTH - 2, and the panel of the model is narrower so
\* that a line longer than a row stays short
PanelWidth == 40

SCREEN_HEIGHT == 30

STAT_LINES == 2

NARRATIVE_INDENT == 2

BOLD == SGR(<<"1">>)

FG_CYAN == SGR(<<"3", "6">>)

\* "".join(codes) + text + ANSI.RESET
color(s, codes) == codes \o s \o RESET

\* str(n) for n >= 0
RECURSIVE DecimalChars(_)
DecimalChars(n) ==
    LET d == <<"0", "1", "2", "3", "4", "5", "6", "7", "8", "9">>
    IN  IF n < 10 THEN <<d[n + 1]>> ELSE DecimalChars(n \div 10) \o <<d[(n % 10) + 1]>>

\* f"\033[38;2;{r};{g};{b}m"
_truecolor(r, g, b) ==
    SGR(<<"3", "8", ";", "2", ";">> \o DecimalChars(r) \o <<";">> \o DecimalChars(g)
            \o <<";">> \o DecimalChars(b))

\* int(start + (end - start) * i / (n - 1)) for 0 <= end, start and n > 1
GradientChannel(start, end, i, n) ==
    IF end >= start THEN start + ((end - start) * i) \div (n - 1)
    ELSE (start * (n - 1) - (start - end) * i) \div (n - 1)

\* format_gradient_location_text._gradient: every character behind its colour
_gradient(s, start_color, end_color) ==
    LET n == Len(s)
        piece(i) == _truecolor(GradientChannel(start_color[1], end_color[1], i, n),
                               GradientChannel(start_color[2], end_color[2], i, n),
                               GradientChannel(start_color[3], end_color[3], i, n))
                        \o <<s[i + 1]>>
        RECURSIVE from(_)
        from(i) == IF i >= n THEN <<>> ELSE piece(i) \o from(i + 1)
    IN  from(0)

\* the characters of a location name
LocationText(location) ==
    IF location = "Forest" THEN <<"F", "o", "r", "e", "s", "t">>
    ELSE IF location = "Town" THEN <<"T", "o", "w", "n">>
    ELSE <<>>

format_gradient_location_text(location) ==
    LET left_embellishment == <<"*", "-", "-", "-", "-", "-", "<", "{", "(", "[", " ", " ">>
        right_embellishment == <<" ", " ", "]", ")", "}", ">", "-", "-", "-", "-", "-", "*">>
        start_color == <<192, 192, 192>>
        end_color == <<0, 0, 128>>
    IN  _gradient(left_embellishment, start_color, end_color) \o FG_WHITE \o location
            \o _gradient(right_embellishment, end_color, start_color) \o RESET

\* label.center(SCREEN_WIDTH - 2, "-")
LabelRow(label) ==
    LET w == PanelWidth - 2
        marg == w - Len(label)
        left == (marg \div 2) + (IF marg % 2 = 1 /\ w % 2 = 1 THEN 1 ELSE 0)
    IN  IF marg <= 0 THEN label
        ELSE Repeat("-", left) \o color(label, FG_WHITE \o BOLD) \o Repeat("-", marg - left)

\* s.startswith(prefix)
startswith(s, prefix) == Len(s) >= Len(prefix) /\ SubSeq(s, 1, Len(prefix)) = prefix

\* status_lines[-max_status:] when there are more than max_status of them
StatusLines(status_lines, body_height, art_count) ==
    LET n == StatusCount(body_height, art_count, Len(status_lines))
    IN  SubSeq(status_lines, Len(status_lines) - n + 1, Len(status_lines))

\* render_frame: body_rows[i - 1] if i - 1 < len(body_rows) else "", the list being
\* the art rows, the divider, the narrative rows and the status rows
BodyRow(f, body_height, i) ==
    LET art_count == Len(f.art_lines)
        divider_count == IF art_count > 0 THEN 1 ELSE 0
        status_lines == StatusLines(f.status_lines, body_height, art_count)
        space == narrative_space(body_height, art_count, Len(f.status_lines))
        n == i - art_count - divider_count
    IN  IF i <= art_count
        THEN LET cropped == center_crop_ansi(f.art_lines[i], PanelWidth - 2, f.art_anchor_x)
             IN  color(IF Len(strip_ansi(cropped)) < PanelWidth - 2
                       THEN center_ansi(cropped, PanelWidth - 2) ELSE cropped,
                       f.art_color)
        ELSE IF n = 0 THEN Repeat("-", PanelWidth - 2)
        ELSE IF n <= space
        THEN LET shown == visible_lines(f.location, f.body_lines, space)
                 raw0 == IF n <= Len(shown) THEN shown[n] ELSE <<>>
                 raw == IF raw0 # <<>> THEN Spaces(NARRATIVE_INDENT) \o raw0 ELSE raw0
             IN  pad_or_trim_ansi(raw, PanelWidth - 2)
        ELSE IF n - space <= Len(status_lines)
        THEN center_ansi(color(status_lines[n - space], FG_YELLOW), PanelWidth - 2)
        ELSE <<>>

\* one stat row: the line coloured by what it starts with, centred
StatRow(stat_lines, i) ==
    LET raw == IF i <= Len(stat_lines) THEN stat_lines[i] ELSE <<>>
        styled == IF startswith(raw, <<"H", "P", ":">>) THEN color(raw, FG_RED)
                  ELSE IF startswith(raw, <<"L", "e", "v", "e", "l", ":">>)
                  THEN color(raw, FG_YELLOW)
                  ELSE IF startswith(raw, <<"N", "a", "m", "e", ":">>)
                  THEN color(raw, FG_GREEN \o BOLD)
                  ELSE IF startswith(raw, <<"L", "o", "c", "a", "t", "i", "o", "n", ":">>)
                  THEN color(raw, FG_CYAN)
                  ELSE raw
    IN  center_ansi(styled, PanelWidth - 2)

\* render_frame: output, every row with its kind and its text
render_frame(f) ==
    LET used_rows == 1 + 1 + 1 + 1 + Len(f.action_lines) + 1 + STAT_LINES + 1
        body_height == SCREEN_HEIGHT - used_rows
        border == <<"+">> \o Repeat("-", PanelWidth - 2) \o <<"+">>
        row(kind, left, content, right) ==
            [kind |-> kind, text |-> <<left>> \o content \o <<right>>]
    IN  <<[kind |-> "top", text |-> border],
          row("location", "|",
              center_ansi(format_gradient_location_text(LocationText(f.location)),
                          PanelWidth - 2), "|"),
          [kind |-> "separator", text |-> border]>>
        \o [i \in 1..Max(0, body_height) |->
               row("body", "|", BodyRow(f, body_height, i), "|")]
        \o <<row("actions", "+", LabelRow(<<"A", "c", "t", "i", "o", "n", "s">>), "+")>>
        \o [i \in 1..Len(f.action_lines) |->
               row("action", "|", pad_or_trim_ansi(f.action_lines[i], PanelWidth - 2), "|")]
        \o <<row("stats", "+",
                 LabelRow(<<"P", "l", "a", "y", "e", "r", "-", "S", "t", "a", "t", "s">>),
                 "+")>>
        \o [i \in 1..STAT_LINES |-> row("stat", "|", StatRow(f.stat_lines, i), "|")]
        \o <<[kind |-> "bottom", text |-> border]>>

\* a Frame, as far as render_frame reads it
PanelFrame(location, art_lines, art_anchor_x, body_lines, status_lines, action_lines, stat_lines) ==
    [location |-> location, art_lines |-> art_lines, art_color |-> FG_GREEN,
     art_anchor_x |-> art_anchor_x, body_lines |-> body_lines,
     status_lines |-> status_lines, action_lines |-> action_lines,
     stat_lines |-> stat_lines]

IdlePanel ==
    /\ panelFrame = PanelFrame("", <<>>, {}, <<>>, <<>>, <<>>, <<>>)
    /\ panelOut = <<>>

(***************************************************************************)
(* The host's opponent records under the render and animation calls.  The  *)
(* records are objects: a list holds identities, and a write through one   *)
(* list is seen through every other list that holds the same identity.     *)
(***************************************************************************)

\* the records a list of identities stands for
Deref(heap, list) == [i \in 1..Len(list) |-> heap[list[i]]]

\* a replace that writes the fields into the object it is given
replace_in_place(heap, id, art_lines, hp) ==
    [heap |-> [heap EXCEPT ![id] = [heap[id] EXCEPT !.art_lines = art_lines, !.hp = hp]],
     id |-> id]

\* dataclasses.replace(current, art_lines=trimmed, hp=0): a new object that
\* holds the fields of current and the changed ones
replace(heap, id, art_lines, hp) ==
    [heap |-> Append(heap, [heap[id] EXCEPT !.art_lines = art_lines, !.hp = hp]),
     id |-> Len(heap) + 1]

\* melt_opponent: art_overrides, a new list with the copy at index
ArtOverrides(heap, list, index, trimmed) ==
    LET made == replace(heap, list[index + 1], trimmed, 0)
    IN  [heap |-> made.heap,
         list |-> [i \in 1..Len(list) |-> IF i - 1 = index THEN made.id ELSE list[i]]]

\* melt_opponent: the loop over removed, each frame with its art_opponents
RECURSIVE MeltLoop(_, _, _, _, _)
MeltLoop(heap, list, index, lines, k) ==
    IF k > Len(lines) THEN [heap |-> heap, frames |-> <<>>]
    ELSE LET made == ArtOverrides(heap, list, index, MeltTrimmed(lines, k))
             rest == MeltLoop(made.heap, list, index, lines, k + 1)
         IN  [heap |-> rest.heap,
              frames |-> <<Deref(made.heap, made.list)>> \o rest.frames]

\* melt_opponent(..., opponents, message, index)
melt_opponent(heap, list, index) ==
    IF index = {} THEN [heap |-> heap, frames |-> <<>>]
    ELSE LET n == CHOOSE n \in index : TRUE
         IN  IF n < 0 \/ n >= Len(list) THEN [heap |-> heap, frames |-> <<>>]
             ELSE IF heap[list[n + 1]].art_lines = <<>> THEN [heap |-> heap, frames |-> <<>>]
             ELSE MeltLoop(heap, list, n, DisplayLines(heap[list[n + 1]].art_lines), 1)

\* flash_opponent(..., opponents, message, index, flash_color): one frame of
\* the caller's list
flash_opponent(heap, list, index) ==
    [heap |-> heap,
     frames |-> IF index = {} THEN <<>> ELSE <<Deref(heap, list)>>]

\* animate_spell_overlay(..., opponents, message, index, effect)
animate_spell_overlay(heap, list, index, effect) ==
    [heap |-> heap,
     frames |-> IF index = {} \/ ~IsFrameList(effect) THEN <<>>
                ELSE [k \in 1..(EffectLoops(effect) * Len(effect.frames)) |->
                         Deref(heap, list)]]

\* animate_scene_gap(..., opponents, message, start_gap, end_gap, steps,
\* art_opponents): art_opponents is drawn when it is given ({} for None)
animate_scene_gap(heap, list, start_gap, end_gap, steps, art_opponents) ==
    [heap |-> heap,
     frames |-> IF start_gap = end_gap \/ steps <= 0 THEN <<>>
                ELSE [k \in 1..steps |->
                         IF art_opponents = {} THEN Deref(heap, list)
                         ELSE Deref(heap, CHOOSE l \in art_opponents : TRUE)]]

\* the objects the caller's list still reaches, the copies of a call dropped
Reached(heap, list) == SubSeq(heap, 1, Len(list))

IdleHost ==
    /\ hostHeap = <<>>
    /\ hostList = <<>>
    /\ hostBefore = [heap |-> <<>>, list |-> <<>>]
    /\ hostCount = 0
    /\ hostLast = [op |-> "none", index |-> {}, frames |-> <<>>]

IdleRows ==
    /\ rowScene = NoArtScene
    /\ rowOpponents = <<>>
    /\ rowOverride = {}
    /\ rowWidths = {}

(***************************************************************************)
(* handle_command as a whole.  What the call reads from outside the state  *)
(* is its environment: the key, what opponents_data.spawn returns, whether *)
(* the menu or venue lookup finds an entry for the command (found), the    *)
(* length of the list list_inventory_items returns (listed), whether a     *)
(* save exists, and whether the service or the registry handles the        *)
(* command (handled).                                                      *)
(***************************************************************************)
CommandEnv(key, spawned, found, listed, save_exists, handled) ==
    [key |-> key, spawned |-> spawned, found |-> found, listed |-> listed,
     save_exists |-> save_exists, handled |-> handled]

\* command_id.startswith("NUM"), and int(command_id.replace("NUM", "")) - 1
NumCommands == {"NUM1", "NUM2", "NUM3"}

NumIndex(command_id) ==
    IF command_id = "NUM1" THEN 0 ELSE IF command_id = "NUM2" THEN 1 ELSE 2

\* _handle_title: the three branches that start a game
TitleArrival(st) ==
    [AllModesOff(st) EXCEPT !.location = "Town", !.opponents = <<>>, !.loot_bank = NoLoot,
                            !.last_message = <<"You arrive in town.">>]

_handle_title(command_id, st, env) ==
    IF command_id = "TITLE_CONFIRM_YES" THEN TitleArrival(st)
    ELSE IF command_id = "TITLE_NEW" /\ ~env.save_exists THEN TitleArrival(st)
    ELSE IF command_id = "TITLE_CONTINUE" /\ env.save_exists THEN TitleArrival(st)
    ELSE st

\* handle_command: the INVENTORY branch
OpenInventory(st, env) ==
    IF env.listed = 0 THEN [st EXCEPT !.last_message = <<"Inventory is empty.">>]
    ELSE [st EXCEPT !.inventory_mode = TRUE, !.shop_mode = FALSE, !.hall_mode = FALSE,
                    !.spell_mode = FALSE,
                    !.last_message = <<"Choose an item to use.">>]

\* handle_command(command_id, state, ctx, key): the state and the length of
\* state.inventory_items it leaves
handle_command(command_id, st, items, env) ==
    LET leaves(s) == [state |-> s, items |-> items]
    IN  IF st.location = "Title" THEN leaves(_handle_title(command_id, st, env))
        ELSE IF command_id = "ENTER_VENUE"
        THEN leaves(EnterVenue(st, _command_target(st, command_id, env.key)).state)
        ELSE IF command_id = "ENTER_SCENE"
        THEN LET scene_id == _command_target(st, command_id, env.key)
             IN  IF scene_id = {} THEN leaves(st)
                 ELSE leaves(_enter_scene(CHOOSE t \in scene_id : TRUE, st, env.spawned).state)
        ELSE IF command_id = "B_KEY" /\ st.inventory_mode
        THEN leaves([st EXCEPT !.inventory_mode = FALSE,
                               !.last_message = <<"Closed inventory.">>])
        ELSE IF command_id = "B_KEY" /\ st.spell_mode
        THEN leaves([st EXCEPT !.spell_mode = FALSE,
                               !.last_message = <<"Closed spellbook.">>])
        ELSE IF command_id = "SPELLBOOK"
        THEN leaves([st EXCEPT !.spell_mode = TRUE, !.shop_mode = FALSE,
                               !.inventory_mode = FALSE, !.hall_mode = FALSE,
                               !.inn_mode = FALSE, !.last_message = <<"Open spellbook.">>])
        ELSE IF st.spell_mode /\ command_id \in NumCommands
        THEN leaves(IF env.found THEN [st EXCEPT !.spell_mode = FALSE] ELSE st)
        ELSE IF command_id \in {"NUM1", "NUM2"} /\ st.hall_mode
        THEN leaves(IF env.found THEN [st EXCEPT !.hall_view = "info"] ELSE st)
        ELSE IF command_id = "B_KEY" /\ st.hall_mode
        THEN leaves([st EXCEPT !.hall_mode = FALSE,
                               !.last_message = <<"You leave the hall.">>])
        ELSE IF command_id = "B_KEY" /\ st.inn_mode
        THEN leaves([st EXCEPT !.inn_mode = FALSE,
                               !.last_message = <<"You leave the inn.">>])
        ELSE IF command_id = "B_KEY" /\ st.shop_mode
        THEN leaves([st EXCEPT !.shop_mode = FALSE,
                               !.last_message = <<"You leave the shop.">>])
        ELSE IF st.shop_mode
        THEN leaves(IF env.found THEN [st EXCEPT !.last_message = <<"purchase">>] ELSE st)
        ELSE IF command_id = "INVENTORY"
        THEN [state |-> OpenInventory(st, env), items |-> env.listed]
        ELSE IF st.inventory_mode /\ command_id \in NumCommands
        THEN IF NumIndex(command_id) < items
             THEN [state |-> [st EXCEPT !.last_message = <<"use_item">>,
                                        !.inventory_mode = (env.listed # 0)],
                   items |-> env.listed]
             ELSE leaves([st EXCEPT !.last_message = <<"Invalid item selection.">>])
        ELSE IF command_id = "USE_SERVICE"
        THEN leaves(IF env.handled THEN [st EXCEPT !.last_message = <<"service">>] ELSE st)
        ELSE leaves(IF env.handled THEN [st EXCEPT !.last_message = <<"dispatch">>] ELSE st)

IdleModes ==
    /\ modeState = CommandState("Town", <<>>, NoLoot, <<>>,
                                <<FALSE, FALSE, FALSE, FALSE, FALSE>>, "menu")
    /\ modeItems = 0
    /\ modeCalls = <<>>

(***************************************************************************)
(* The player's offensive action: the command lowers an opponent's hp, and *)
(* handle_offensive_action animates it and melts the defeated.             *)
(***************************************************************************)

\* primary_opponent_index: the first index (0-based) with hp > 0, {} for None
primary_opponent_index(opps) ==
    LET alive == {i \in 0..(Len(opps) - 1) : opps[i + 1].hp > 0}
    IN  IF alive = {} THEN {} ELSE {CHOOSE i \in alive : \A j \in alive : i <= j}

\* _handle_attack: the opponent it picks (0-based, {} when there is none)
AttackTarget(opps, target_index) ==
    IF \E n \in target_index : 0 <= n /\ n < Len(opps) /\ opps[n + 1].hp > 0
    THEN target_index
    ELSE primary_opponent_index(opps)

\* _handle_attack with a roll of damage (0 for a miss)
AttackOpponents(opps, target_index, damage) ==
    LET picked == AttackTarget(opps, target_index)
    IN  IF picked = {} \/ damage = 0 THEN opps
        ELSE LET i == (CHOOSE n \in picked : TRUE) + 1
                 hp == Max(0, opps[i].hp - damage)
             IN  [opps EXCEPT ![i].hp = hp,
                              ![i].melted = IF hp = 0 THEN FALSE ELSE opps[i].melted]

\* every opponent with hp <= 0, melted or not
defeated_or_melted(opps) ==
    {i \in 0..(Len(opps) - 1) : opps[i + 1].hp <= 0}

\* handle_offensive_action: defeated_indices
defeated_indices(opps) ==
    {i \in 0..(Len(opps) - 1) : opps[i + 1].hp <= 0 /\ ~opps[i + 1].melted}

\* handle_offensive_action: the loop over defeated_indices from index on
RECURSIVE MeltDefeated(_, _, _)
MeltDefeated(opps, indices, index) ==
    IF index >= Len(opps) THEN [opponents |-> opps, events |-> <<>>]
    ELSE IF index \notin indices THEN MeltDefeated(opps, indices, index + 1)
    ELSE LET rest == MeltDefeated([opps EXCEPT ![index + 1].melted = TRUE], indices,
                                  index + 1)
         IN  [opponents |-> rest.opponents,
              events |-> <<[op |-> "melt_opponent", index |-> {index}],
                           [op |-> "melted = True", index |-> {index}]>> \o rest.events]

\* handle_offensive_action(ctx, state, action_cmd): offensive tells whether
\* action_cmd is in ctx.offensive_actions, overlay whether its spell has an
\* overlay effect
handle_offensive_action(opps, target_index, offensive, overlay) ==
    IF ~offensive THEN [opponents |-> opps, events |-> <<>>]
    ELSE LET index == IF target_index = {} THEN primary_opponent_index(opps)
                      ELSE target_index
             melts == MeltDefeated(opps, defeated_indices(opps), 0)
         IN  [opponents |-> melts.opponents,
              events |-> <<[op |-> IF overlay THEN "animate_spell_overlay"
                                   ELSE "flash_opponent",
                            index |-> index]>> \o melts.events]

IdleBattle ==
    /\ battleOpponents = <<>>
    /\ battleCmd = {}
    /\ battleEvents = <<>>
    /\ battleMelts = <<>>
    /\ battleTurns = 0

(***************************************************************************)
(* push_battle_message on messages that are strings of characters.         *)
(***************************************************************************)
endswith(s, suffix) ==
    Len(s) >= Len(suffix) /\ SubSeq(s, Len(s) - Len(suffix) + 1, Len(s)) = suffix

EmergeMessage ==
    <<"O", "p", "p", "o", "n", "e", "n", "t", "s", " ", "e", "m", "e", "r", "g", "e", " ", "f", "r", "o", "m", " ", "t", "h", "e", " ", "f", "o", "r", "e", "s", "t", ".">>

\* _is_arrival_message(state, message)
_is_arrival_message(message) ==
    \/ message = EmergeMessage
    \/ startswith(message, <<"A", " ">>) /\ endswith(message, <<".">>)

\* a trim that keeps the head of the list
keep_first(log, n) == SubSeq(log, 1, Max(0, n))

\* battle_log[-max_lines:]: the last n entries; the whole list when n is 0;
\* the list without its first -n entries when n is negative
keep_last(log, n) ==
    IF n = 0 THEN log
    ELSE IF n > 0 THEN SubSeq(log, Max(1, Len(log) - n + 1), Len(log))
    ELSE SubSeq(log, (0 - n) + 1, Len(log))

\* push_battle_message(state, message, max_lines): the log and last_message
\* it leaves, and whether it appended the message
push_message(location, log, message, n) ==
    IF location # "Forest" \/ message = <<>>
    THEN [battle_log |-> log, last_message |-> message, appended |-> FALSE]
    ELSE IF log = <<>> /\ _is_arrival_message(message)
    THEN [battle_log |-> log, last_message |-> message, appended |-> FALSE]
    ELSE LET grown == Append(log, message)
         IN  [battle_log |-> IF Len(grown) > n THEN keep_last(grown, n) ELSE grown,
              last_message |-> message, appended |-> TRUE]

IdleLog ==
    /\ logLocation = "Town"
    /\ logBattle = <<>>
    /\ logLast = <<>>
    /\ logAppended = <<>>
    /\ logPushes = 0

(***************************************************************************)
(* The gap of the frames of the battle animations and of the ordinary      *)
(* frame.                                                                  *)
(***************************************************************************)

\* the visible gap widths of the rows of one render_scene_art call
FrameGaps(sc, art_opponents, gap_override) ==
    LET gaps == render_scene_art(sc, art_opponents, gap_override, TRUE, FG_GREEN)
    IN  {Len(strip_ansi(gaps[r].fill)) : r \in 1..Len(gaps)}

Shown(call, count, gaps) == [op |-> call, frames |-> count, gaps |-> gaps]

\* animate_battle_start: animate_scene_gap from gap_base to the gap target
\* in its default six steps, with art_opponents=[]
animate_battle_start(sc, opps) ==
    LET gap_base == GapBase(sc)
        gap_target == compute_scene_gap_target(sc, opps)
        steps == 6
    IN  IF opps = <<>> \/ gap_base = gap_target THEN Shown("animate_battle_start", 0, {})
        ELSE Shown("animate_battle_start", steps,
                   FrameGaps(sc, <<>>, {step_gap(gap_base, gap_target, steps, steps)}))

\* flash_opponent, animate_spell_overlay: frames of the caller's list at the
\* gap target
TargetFrames(call, sc, opps, count) ==
    IF count = 0 THEN Shown(call, 0, {})
    ELSE Shown(call, count, FrameGaps(sc, opps, {compute_scene_gap_target(sc, opps)}))

\* melt_opponent: its last frame, the target's sprite all blank
MeltFrames(sc, opps, index) ==
    IF \A n \in index : n < 0 \/ n >= Len(opps) \/ opps[n + 1].art_lines = <<>>
    THEN Shown("melt_opponent", 0, {})
    ELSE LET n == CHOOSE n \in index : TRUE
             lines == DisplayLines(opps[n + 1].art_lines)
         IN  Shown("melt_opponent", Len(lines),
                   FrameGaps(sc, MeltOverrides(opps, n, MeltTrimmed(lines, Len(lines))),
                             {compute_scene_gap_target(sc, opps)}))

IdleSteady ==
    /\ steadyScene = NoArtScene
    /\ steadyOpponents = <<>>
    /\ steadyShown = Shown("none", 0, {})

IdleLayout ==
    /\ text = <<>>
    /\ width = 0
    /\ anchor = {}
    /\ op = "none"
    /\ out = <<>>

\* the idle predicates of the further parts
IdleFurther ==
    /\ IdlePalette
    /\ IdleOverlay
    /\ IdleArt
    /\ IdleFrame
    /\ IdleCommands
    /\ IdleRouter
    /\ IdleSpells
    /\ IdleAnim
    /\ IdlePlace
    /\ IdlePanel
    /\ IdleHost
    /\ IdleRows
    /\ IdleModes
    /\ IdleBattle
    /\ IdleLog
    /\ IdleSteady

IdleExceptPalette ==
    /\ IdleLayout
    /\ IdleScene
    /\ IdleVenue
    /\ IdleColour
    /\ IdleOverlay
    /\ IdleArt
    /\ IdleFrame
    /\ IdleCommands
    /\ IdleRouter
    /\ IdleSpells
    /\ IdleAnim
    /\ IdlePlace
    /\ IdlePanel
    /\ IdleHost
    /\ IdleRows
    /\ IdleModes
    /\ IdleBattle
    /\ IdleLog
    /\ IdleSteady

IdleExceptOverlay ==
    /\ IdleLayout
    /\ IdleScene
    /\ IdleVenue
    /\ IdleColour
    /\ IdlePalette
    /\ IdleArt
    /\ IdleFrame
    /\ IdleCommands
    /\ IdleRouter
    /\ IdleSpells
    /\ IdleAnim
    /\ IdlePlace
    /\ IdlePanel
    /\ IdleHost
    /\ IdleRows
    /\ IdleModes
    /\ IdleBattle
    /\ IdleLog
    /\ IdleSteady

IdleExceptArt ==
    /\ IdleLayout
    /\ IdleScene
    /\ IdleVenue
    /\ IdleColour
    /\ IdlePalette
    /\ IdleOverlay
    /\ IdleFrame
    /\ IdleCommands
    /\ IdleRouter
    /\ IdleSpells
    /\ IdleAnim
    /\ IdlePlace
    /\ IdlePanel
    /\ IdleHost
    /\ IdleRows
    /\ IdleModes
    /\ IdleBattle
    /\ IdleLog
    /\ IdleSteady

IdleExceptFrame ==
    /\ IdleLayout
    /\ IdleScene
    /\ IdleVenue
    /\ IdleColour
    /\ IdlePalette
    /\ IdleOverlay
    /\ IdleArt
    /\ IdleCommands
    /\ IdleRouter
    /\ IdleSpells
    /\ IdleAnim
    /\ IdlePlace
    /\ IdlePanel
    /\ IdleHost
    /\ IdleRows
    /\ IdleModes
    /\ IdleBattle
    /\ IdleLog
    /\ IdleSteady

IdleExceptCommands ==
    /\ IdleLayout
    /\ IdleScene
    /\ IdleVenue
    /\ IdleColour
    /\ IdlePalette
    /\ IdleOverlay
    /\ IdleArt
    /\ IdleFrame
    /\ IdleRouter
    /\ IdleSpells
    /\ IdleAnim
    /\ IdlePlace
    /\ IdlePanel
    /\ IdleHost
    /\ IdleRows
    /\ IdleModes
    /\ IdleBattle
    /\ IdleLog
    /\ IdleSteady

IdleExceptRouter ==
    /\ IdleLayout
    /\ IdleScene
    /\ IdleVenue
    /\ IdleColour
    /\ IdlePalette
    /\ IdleOverlay
    /\ IdleArt
    /\ IdleFrame
    /\ IdleCommands
    /\ IdleSpells
    /\ IdleAnim
    /\ IdlePlace
    /\ IdlePanel
    /\ IdleHost
    /\ IdleRows
    /\ IdleModes
    /\ IdleBattle
    /\ IdleLog
    /\ IdleSteady

IdleExceptSpells ==
    /\ IdleLayout
    /\ IdleScene
    /\ IdleVenue
    /\ IdleColour
    /\ IdlePalette
    /\ IdleOverlay
    /\ IdleArt
    /\ IdleFrame
    /\ IdleCommands
    /\ IdleRouter
    /\ IdleAnim
    /\ IdlePlace
    /\ IdlePanel
    /\ IdleHost
    /\ IdleRows
    /\ IdleModes
    /\ IdleBattle
    /\ IdleLog
    /\ IdleSteady

IdleExceptAnim ==
    /\ IdleLayout
    /\ IdleScene
    /\ IdleVenue
    /\ IdleColour
    /\ IdlePalette
    /\ IdleOverlay
    /\ IdleArt
    /\ IdleFrame
    /\ IdleCommands
    /\ IdleRouter
    /\ IdleSpells
    /\ IdlePlace
    /\ IdlePanel
    /\ IdleHost
    /\ IdleRows
    /\ IdleModes
    /\ IdleBattle
    /\ IdleLog
    /\ IdleSteady

IdleExceptPlace ==
    /\ IdleLayout
    /\ IdleScene
    /\ IdleVenue
    /\ IdleColour
    /\ IdlePalette
    /\ IdleOverlay
    /\ IdleArt
    /\ IdleFrame
    /\ IdleCommands
    /\ IdleRouter
    /\ IdleSpells
    /\ IdleAnim
    /\ IdlePanel
    /\ IdleHost
    /\ IdleRows
    /\ IdleModes
    /\ IdleBattle
    /\ IdleLog
    /\ IdleSteady

IdleExceptPanel ==
    /\ IdleLayout
    /\ IdleScene
    /\ IdleVenue
    /\ IdleColour
    /\ IdlePalette
    /\ IdleOverlay
    /\ IdleArt
    /\ IdleFrame
    /\ IdleCommands
    /\ IdleRouter
    /\ IdleSpells
    /\ IdleAnim
    /\ IdlePlace
    /\ IdleHost
    /\ IdleRows
    /\ IdleModes
    /\ IdleBattle
    /\ IdleLog
    /\ IdleSteady

IdleExceptHost ==
    /\ IdleLayout
    /\ IdleScene
    /\ IdleVenue
    /\ IdleColour
    /\ IdlePalette
    /\ IdleOverlay
    /\ IdleArt
    /\ IdleFrame
    /\ IdleCommands
    /\ IdleRouter
    /\ IdleSpells
    /\ IdleAnim
    /\ IdlePlace
    /\ IdlePanel
    /\ IdleRows
    /\ IdleModes
    /\ IdleBattle
    /\ IdleLog
    /\ IdleSteady

IdleExceptRows ==
    /\ IdleLayout
    /\ IdleScene
    /\ IdleVenue
    /\ IdleColour
    /\ IdlePalette
    /\ IdleOverlay
    /\ IdleArt
    /\ IdleFrame
    /\ IdleCommands
    /\ IdleRouter
    /\ IdleSpells
    /\ IdleAnim
    /\ IdlePlace
    /\ IdlePanel
    /\ IdleHost
    /\ IdleModes
    /\ IdleBattle
    /\ IdleLog
    /\ IdleSteady

IdleExceptModes ==
    /\ IdleLayout
    /\ IdleScene
    /\ IdleVenue
    /\ IdleColour
    /\ IdlePalette
    /\ IdleOverlay
    /\ IdleArt
    /\ IdleFrame
    /\ IdleCommands
    /\ IdleRouter
    /\ IdleSpells
    /\ IdleAnim
    /\ IdlePlace
    /\ IdlePanel
    /\ IdleHost
    /\ IdleRows
    /\ IdleBattle
    /\ IdleLog
    /\ IdleSteady

IdleExceptBattle ==
    /\ IdleLayout
    /\ IdleScene
    /\ IdleVenue
    /\ IdleColour
    /\ IdlePalette
    /\ IdleOverlay
    /\ IdleArt
    /\ IdleFrame
    /\ IdleCommands
    /\ IdleRouter
    /\ IdleSpells
    /\ IdleAnim
    /\ IdlePlace
    /\ IdlePanel
    /\ IdleHost
    /\ IdleRows
    /\ IdleModes
    /\ IdleLog
    /\ IdleSteady

IdleExceptLog ==
    /\ IdleLayout
    /\ IdleScene
    /\ IdleVenue
    /\ IdleColour
    /\ IdlePalette
    /\ IdleOverlay
    /\ IdleArt
    /\ IdleFrame
    /\ IdleCommands
    /\ IdleRouter
    /\ IdleSpells
    /\ IdleAnim
    /\ IdlePlace
    /\ IdlePanel
    /\ IdleHost
    /\ IdleRows
    /\ IdleModes
    /\ IdleBattle
    /\ IdleSteady

IdleExceptSteady ==
    /\ IdleLayout
    /\ IdleScene
    /\ IdleVenue
    /\ IdleColour
    /\ IdlePalette
    /\ IdleOverlay
    /\ IdleArt
    /\ IdleFrame
    /\ IdleCommands
    /\ IdleRouter
    /\ IdleSpells
    /\ IdleAnim
    /\ IdlePlace
    /\ IdlePanel
    /\ IdleHost
    /\ IdleRows
    /\ IdleModes
    /\ IdleBattle
    /\ IdleLog

\* end of the idle predicates

(***************************************************************************)
(* The layout helpers, each applied once to a text.                        *)
(***************************************************************************)
Widths == (0 - 1)..(MaxLen + 1)

Anchors == {{}} \cup {{n} : n \in (0 - 1)..MaxLen}

InitLayout ==
    /\ text \in Texts
    /\ width = 0
    /\ anchor = {}
    /\ op = "none"
    /\ out = <<>>
    /\ IdleScene
    /\ IdleVenue
    /\ IdleColour
    /\ IdleFurther

CallPadOrTrim ==
    \E w \in Widths :
        /\ op = "none"
        /\ width' = w
        /\ anchor' = {}
        /\ op' = "pad_or_trim_ansi"
        /\ out' = pad_or_trim_ansi(text, w)
        /\ UNCHANGED text
        /\ UNCHANGED sceneVars
        /\ UNCHANGED venueVars
        /\ UNCHANGED colourVars
        /\ UNCHANGED furtherVars

CallPadAnsi ==
    \E w \in Widths :
        /\ op = "none"
        /\ width' = w
        /\ anchor' = {}
        /\ op' = "pad_ansi"
        /\ out' = pad_ansi(text, w)
        /\ UNCHANGED text
        /\ UNCHANGED sceneVars
        /\ UNCHANGED venueVars
        /\ UNCHANGED colourVars
        /\ UNCHANGED furtherVars

CallCenterCrop ==
    \E w \in Widths, a \in Anchors :
        /\ op = "none"
        /\ width' = w
        /\ anchor' = a
        /\ op' = "center_crop_ansi"
        /\ out' = center_crop_ansi(text, w, a)
        /\ UNCHANGED text
        /\ UNCHANGED sceneVars
        /\ UNCHANGED venueVars
        /\ UNCHANGED colourVars
        /\ UNCHANGED furtherVars

NextLayout ==
    \/ CallPadOrTrim
    \/ CallPadAnsi
    \/ CallCenterCrop

SpecLayout == InitLayout /\ [][NextLayout]_vars

VisibleLen(s) == Len(strip_ansi(s))

Cropped == op \in {"pad_or_trim_ansi", "center_crop_ansi"}

(***************************************************************************)
(* C1: whenever the visible length of s is at least w >= 0, cropping s to  *)
(* w (pad_or_trim_ansi, center_crop_ansi with any anchor) returns a string *)
(* whose visible length is exactly w.                                      *)
(***************************************************************************)
C1_CropVisibleWidth ==
    (Cropped /\ width >= 0 /\ VisibleLen(text) >= width)
        => VisibleLen(out) = width

\* every ESC [ of s is followed, somewhere later, by an m
Terminated(s) ==
    \A k \in 1..Len(s) :
        (s[k] = ESC /\ k + 1 <= Len(s) /\ s[k + 1] = "[")
            => \E j \in (k + 2)..Len(s) : s[j] = "m"

(***************************************************************************)
(* C2: cropping never truncates mid-escape-sequence: when every ESC [ of   *)
(* the input has its terminating m, so has every ESC [ of the output of    *)
(* pad_or_trim_ansi and of center_crop_ansi.                               *)
(***************************************************************************)
C2_NoDanglingEscape ==
    (Cropped /\ Terminated(text)) => Terminated(out)

C2_Witness ==
    /\ Cropped
    /\ Terminated(text)
    /\ \E k \in 1..Len(text) : text[k] = ESC /\ k < Len(text) /\ text[k + 1] = "["
    /\ Len(out) < Len(text)
    /\ \E k \in 1..Len(out) : out[k] = ESC

IsPrefix(s, t) == Len(s) <= Len(t) /\ \A k \in 1..Len(s) : s[k] = t[k]

(***************************************************************************)
(* C3: the visible length of pad_ansi(s, w) is max(w, visible length of s) *)
(* and s is a prefix of the result.                                        *)
(***************************************************************************)
C3_PadAnsi ==
    op = "pad_ansi" =>
        /\ VisibleLen(out) = Max(width, VisibleLen(text))
        /\ IsPrefix(text, out)

C3_Witness ==
    /\ op = "pad_ansi"
    /\ VisibleLen(text) < Len(text)
    /\ VisibleLen(text) < width
    /\ Len(out) > Len(text)

(***************************************************************************)
(* The melt animation.                                                     *)
(***************************************************************************)
InitMelt ==
    /\ IdleLayout
    /\ IdleVenue
    /\ IdleColour
    /\ IdleFurther
    /\ scene \in {ForestScene, EmptyScene}
    /\ opponents \in OpponentLists
    /\ meltPc = "idle"
    /\ meltIndex = {}
    /\ removed = 0
    /\ display_lines = <<>>
    /\ frames = <<>>
    /\ gapResult = {}

Indices(opps) == {{}} \cup {{n} : n \in (0 - 1)..Len(opps)}

\* melt_opponent up to its frame loop
MeltStart ==
    \E index \in Indices(opponents) :
        /\ meltPc = "idle"
        /\ meltIndex' = index
        /\ IF index = {} THEN
               /\ meltPc' = "done"
               /\ UNCHANGED <<removed, display_lines>>
           ELSE LET n == CHOOSE n \in index : TRUE
                IN  IF n < 0 \/ n >= Len(opponents) THEN
                        /\ meltPc' = "done"
                        /\ UNCHANGED <<removed, display_lines>>
                    ELSE IF opponents[n + 1].art_lines = <<>> THEN
                        /\ meltPc' = "done"
                        /\ UNCHANGED <<removed, display_lines>>
                    ELSE
                        /\ display_lines' = DisplayLines(opponents[n + 1].art_lines)
                        /\ removed' = 1
                        /\ meltPc' = "melting"
        /\ UNCHANGED <<scene, opponents, frames, gapResult>>
        /\ UNCHANGED layoutVars
        /\ UNCHANGED venueVars
        /\ UNCHANGED colourVars
        /\ UNCHANGED furtherVars

\* one pass of the frame loop of melt_opponent: a render and a sleep
MeltFrame ==
    /\ meltPc = "melting"
    /\ removed <= Len(display_lines)
    /\ LET index == CHOOSE n \in meltIndex : TRUE
           trimmed == MeltTrimmed(display_lines, removed)
           art_overrides == MeltOverrides(opponents, index, trimmed)
       IN  frames' = Append(frames,
                RenderSceneFrame(opponents, compute_scene_gap_target(scene, opponents),
                                 art_overrides, {index}, TRUE))
    /\ removed' = removed + 1
    /\ meltPc' = IF removed = Len(display_lines) THEN "done" ELSE "melting"
    /\ UNCHANGED <<scene, opponents, meltIndex, display_lines, gapResult>>
    /\ UNCHANGED layoutVars
    /\ UNCHANGED venueVars
    /\ UNCHANGED colourVars
    /\ UNCHANGED furtherVars

NextMelt ==
    \/ MeltStart
    \/ MeltFrame

SpecMelt == InitMelt /\ [][NextMelt]_vars

ValidMelt ==
    /\ meltIndex # {}
    /\ LET n == CHOOSE n \in meltIndex : TRUE
       IN  /\ 0 <= n
           /\ n < Len(opponents)
           /\ opponents[n + 1].art_lines # <<>>

MeltTarget == opponents[(CHOOSE n \in meltIndex : TRUE) + 1]

\* the rows of the target's block in a frame
TargetBlock(f) ==
    LET n == CHOOSE n \in meltIndex : TRUE
        b == CHOOSE b \in 1..Len(f.blocks) : f.blocks[b].index = n
    IN  f.blocks[b].lines

\* frame k of a melt of a sprite of H rows: rows 1..k of the target's block are
\* blank, rows k+1..H are the rows of the sprite as displayed while alive, and
\* the target is handed to the renderer with hp = 0
MeltFrameOk(k) ==
    LET f == frames[k]
        n == CHOOSE n \in meltIndex : TRUE
        H == Len(MeltTarget.art_lines)
        alive == DisplayLines(MeltTarget.art_lines)
        rows == TargetBlock(f)
    IN  /\ f.art_opponents[n + 1].hp = 0
        /\ Len(f.art_opponents[n + 1].art_lines) = H
        /\ Len(rows) >= H
        /\ \A r \in 1..k : rows[Len(rows) - (H + 1) + r] = BlankRow
        /\ \A r \in (k + 1)..H : rows[Len(rows) - (H + 1) + r] = alive[r]

(***************************************************************************)
(* C4: a melt with a valid index on a sprite of H >= 1 rows renders        *)
(* exactly H frames; in frame k the top k sprite rows of the target are    *)
(* blank and the rows below are unchanged, and the target is rendered with *)
(* hp = 0 in every frame.                                                  *)
(***************************************************************************)
C4_MeltMonotone ==
    (meltPc # "idle" /\ ValidMelt) =>
        /\ Len(frames) <= Len(MeltTarget.art_lines)
        /\ Len(frames) = removed - 1
        /\ meltPc = "done" => Len(frames) = Len(MeltTarget.art_lines)
        /\ \A k \in 1..Len(frames) : MeltFrameOk(k)

C4_Witness ==
    /\ meltPc = "done"
    /\ ValidMelt
    /\ Len(frames) = 3
    /\ MeltTarget.hp > 0
    /\ \E r \in 1..3 : DisplayLines(MeltTarget.art_lines)[r] # BlankRow

(***************************************************************************)
(* compute_scene_gap_target, applied once to a scene and an opponent list. *)
(***************************************************************************)
OptGaps == {{}} \cup {{g} : g \in 0..MaxGap}

Scenes ==
    {EmptyScene} \cup
    {SceneRec(TRUE, l, ol, gm, gw) : l \in BOOLEAN, ol \in BOOLEAN,
                                     gm \in OptGaps, gw \in OptGaps}

GapOpponents == {Opponent(<<<<"#">>>>, 2), Opponent(<<>>, 2)}

GapOpponentLists == UNION {ListsOfLen(GapOpponents, n) : n \in 0..MaxBlocks}

InitGap ==
    /\ IdleLayout
    /\ IdleVenue
    /\ IdleColour
    /\ IdleFurther
    /\ scene \in Scenes
    /\ opponents \in GapOpponentLists
    /\ meltPc = "idle"
    /\ meltIndex = {}
    /\ removed = 0
    /\ display_lines = <<>>
    /\ frames = <<>>
    /\ gapResult = {}

ComputeGap ==
    /\ gapResult = {}
    /\ gapResult' = {compute_scene_gap_target(scene, opponents)}
    /\ UNCHANGED <<scene, opponents, meltPc, meltIndex, removed, display_lines, frames>>
    /\ UNCHANGED layoutVars
    /\ UNCHANGED venueVars
    /\ UNCHANGED colourVars
    /\ UNCHANGED furtherVars

NextGap == ComputeGap

SpecGap == InitGap /\ [][NextGap]_vars

\* the claim's formula: W*n + 2*(n-1) + 2*2 with W = 10, against the base gap
ClaimedGap(sc, opps) ==
    LET n == Cardinality({k \in 1..Len(opps) : opps[k].art_lines # <<>>})
    IN  IF n >= 1 THEN Max(GapBase(sc), 10 * n + 2 * (n - 1) + 2 * 2)
        ELSE GapBase(sc)

(***************************************************************************)
(* C7 as claimed: compute_scene_gap_target returns                         *)
(* max(base_gap, 10*n + 2*(n-1) + 2*2) for n >= 1 opponents with art and   *)
(* base_gap for none.                                                      *)
(***************************************************************************)
C7_GapTarget ==
    gapResult # {} => gapResult = {ClaimedGap(scene, opponents)}

(***************************************************************************)
(* C7 as amended: that holds for every non-empty scene record; for an      *)
(* empty scene record the function returns 0.                              *)
(***************************************************************************)
C7_GapTargetAmended ==
    gapResult # {} =>
        gapResult = {IF scene.present THEN ClaimedGap(scene, opponents) ELSE 0}

C7_Witness ==
    /\ gapResult = {38}
    /\ scene.present
    /\ ~scene.left
    /\ ~scene.objects_left
    /\ scene.gap_width = {20}
    /\ Len(opponents) = 3
    /\ \A k \in 1..3 : opponents[k].art_lines # <<>>

(***************************************************************************)
(* render_venue_objects, applied once to a strip.                          *)
(***************************************************************************)
InitVenue ==
    /\ IdleLayout
    /\ IdleScene
    /\ IdleColour
    /\ IdleFurther
    /\ venue_objects \in Strips
    /\ venuePc = "idle"
    /\ positions = <<>>
    /\ cursor = 0
    /\ max_height = 0
    /\ canvas = <<>>
    /\ writes = <<>>
    /\ npc_anchor = {}

RenderVenueObjects ==
    /\ venuePc = "idle"
    /\ LET expanded == Expand(venue_objects)
           pos == PlaceAll(expanded, 0)
           W == SumWidths(expanded)
           H == MaxHeightOf(expanded)
       IN  /\ positions' = pos
           /\ cursor' = W
           /\ max_height' = H
           /\ IF H <= 0 \/ W <= 0 THEN
                  /\ venuePc' = "empty"
                  /\ canvas' = <<>>
                  /\ writes' = <<>>
                  /\ npc_anchor' = {}
              ELSE
                  /\ venuePc' = "rendered"
                  /\ canvas' = PaintFrom([y \in 0..(H - 1) |-> [x \in 0..(W - 1) |-> BlankCell]],
                                         pos, 1, W, H)
                  /\ writes' = [k \in 1..Len(pos) |-> EntryWrites(pos, k, W, H)]
                  /\ npc_anchor' = NpcAnchor(pos)
    /\ UNCHANGED venue_objects
    /\ UNCHANGED layoutVars
    /\ UNCHANGED sceneVars
    /\ UNCHANGED colourVars
    /\ UNCHANGED furtherVars

NextVenue == RenderVenueObjects

SpecVenue == InitVenue /\ [][NextVenue]_vars

IsSpan(k) == positions[k].entry.mode = "span_until"

\* the position of the target of span entry k (0 if it has none)
SpanTarget(k) ==
    LET later == {t \in (k + 1)..Len(positions) : positions[t].id = positions[k].entry.target}
    IN  IF positions[k].entry.target = "" \/ later = {} THEN 0
        ELSE CHOOSE t \in later : \A u \in later : t <= u

\* the cells (y, x) an entry painted
CellsOf(k) == {<<w.y, w.x>> : w \in writes[k]}

FirstGlyph(obj_id) ==
    IF _obj_art(obj_id) # <<>> /\ _obj_art(obj_id)[1] # <<>> THEN _obj_art(obj_id)[1][1]
    ELSE " "

FirstMask(obj_id) ==
    IF _obj_mask(obj_id) # <<>> /\ _obj_mask(obj_id)[1] # <<>> THEN _obj_mask(obj_id)[1][1]
    ELSE ""

\* one row of k columns from column x on, all painted with glyph g and mask m
FillsRow(ws, x, k, g, m) ==
    \E y \in 0..(max_height - 1) :
        /\ {<<w.y, w.x>> : w \in ws} = {<<y, x + dx>> : dx \in 0..(k - 1)}
        /\ \A w \in ws : w.ch = g /\ w.mask = m

(***************************************************************************)
(* C5 as claimed: a span_until entry whose target lies k > 0 columns to    *)
(* its right fills exactly those k columns of one row, and no other cell,  *)
(* with the target asset's first glyph and first mask-code.                *)
(***************************************************************************)
C5_SpanFillsWithTarget ==
    venuePc = "rendered" =>
        \A k \in 1..Len(positions) :
            (IsSpan(k) /\ SpanTarget(k) # 0 /\ positions[SpanTarget(k)].x > positions[k].x)
                => FillsRow(writes[k], positions[k].x,
                            positions[SpanTarget(k)].x - positions[k].x,
                            FirstGlyph(positions[SpanTarget(k)].id),
                            FirstMask(positions[SpanTarget(k)].id))

(***************************************************************************)
(* C5 as amended: the fill uses the span entry's own asset: its first      *)
(* glyph and first mask-code; an entry whose asset has no art, or whose    *)
(* first glyph is a blank, paints nothing.                                 *)
(***************************************************************************)
C5_SpanFillsWithOwn ==
    venuePc = "rendered" =>
        \A k \in 1..Len(positions) :
            (IsSpan(k) /\ SpanTarget(k) # 0 /\ positions[SpanTarget(k)].x > positions[k].x)
                => IF FirstGlyph(positions[k].id) = " " THEN writes[k] = {}
                   ELSE FillsRow(writes[k], positions[k].x,
                                 positions[SpanTarget(k)].x - positions[k].x,
                                 FirstGlyph(positions[k].id),
                                 FirstMask(positions[k].id))

C5_Witness ==
    /\ venuePc = "rendered"
    /\ \E k \in 1..Len(positions) :
        /\ IsSpan(k)
        /\ SpanTarget(k) # 0
        /\ positions[SpanTarget(k)].x - positions[k].x = 5
        /\ Cardinality(writes[k]) = 5
        /\ \A w \in writes[k] : w.ch = "-" /\ w.mask = "b"

IsAsset(k) == ~IsSpan(k) /\ positions[k].id # "space"

\* the width the claim gives an expanded entry
ClaimedWidth(entry) ==
    IF entry.mode = "span_until" THEN 0
    ELSE IF entry.id = "space" THEN Get(entry.width, 1)
    ELSE MaxLenOf(_obj_art(entry.id))

\* the same, with a space of width 0 taking one column and a negative one none
AmendedWidth(entry) ==
    IF entry.mode = "span_until" THEN 0
    ELSE IF entry.id = "space"
    THEN (IF Get(entry.width, 1) = 0 THEN 1 ELSE Max(0, Get(entry.width, 1)))
    ELSE MaxLenOf(_obj_art(entry.id))

RECURSIVE SumUpTo(_, _)
SumUpTo(f, n) == IF n = 0 THEN 0 ELSE f[n] + SumUpTo(f, n - 1)

\* the placement of C6 for a given width rule (a function from position to width)
PlacementOk(wd) ==
    /\ cursor = SumUpTo(wd, Len(positions))
    /\ \A k \in 1..Len(positions) :
        IsAsset(k) =>
            LET x == SumUpTo(wd, k - 1)
                art == _obj_art(positions[k].id)
                y == AlignY(_obj_align(positions[k].entry, positions[k].id),
                            max_height - Len(art))
            IN  /\ positions[k].x = x
                /\ \A w \in writes[k] : x <= w.x /\ w.x < x + wd[k]
                /\ (art # <<>> /\ art[1] # <<>> /\ art[1][1] # " ")
                        => /\ <<y, x>> \in CellsOf(k)
                           /\ canvas[y][x].ch = art[1][1]
    /\ \A j, k \in 1..Len(positions) :
        (IsAsset(j) /\ IsAsset(k) /\ j # k) => CellsOf(j) \cap CellsOf(k) = {}

(***************************************************************************)
(* C6 as claimed: the canvas width is the sum of the entries' widths (an   *)
(* asset: its longest art row; a space: its configured width; a span: 0),  *)
(* each asset is blitted at x = the cumulative width of the entries before *)
(* it, no two assets overlap, and each asset's non-blank top-left          *)
(* character shows at its (x, y).                                          *)
(***************************************************************************)
C6_Placement ==
    venuePc = "rendered" =>
        PlacementOk([k \in 1..Len(positions) |-> ClaimedWidth(positions[k].entry)])

(***************************************************************************)
(* C6 as amended: the same, where a space entry contributes its configured *)
(* width when that is positive, 1 when it is missing or 0, and 0 when it   *)
(* is negative.                                                            *)
(***************************************************************************)
C6_PlacementAmended ==
    venuePc = "rendered" =>
        PlacementOk([k \in 1..Len(positions) |-> AmendedWidth(positions[k].entry)])

C6_Witness ==
    /\ venuePc = "rendered"
    /\ Len(positions) = 3
    /\ IsAsset(1)
    /\ positions[2].id = "space"
    /\ IsAsset(3)
    /\ positions[3].x = 8
    /\ cursor = 10
    /\ canvas[0][8].ch = "H"
    /\ writes[1] # {}

(***************************************************************************)
(* _mix64 and _unit_from, called twice on one integer.                     *)
(***************************************************************************)
\* magnitudes around the 64-bit boundary: 2^31 - 1, 2^64 - 0x9E3779B97F4A7C15,
\* 2^64 - 1, 2^64 and 2^64 + 5
WideSeeds ==
    {<<255, 255, 255, 127>>,
     <<235, 131, 181, 128, 70, 134, 200, 97>>,
     <<255, 255, 255, 255, 255, 255, 255, 255>>,
     <<0, 0, 0, 0, 0, 0, 0, 0, 1>>,
     <<5, 0, 0, 0, 0, 0, 0, 0, 1>>}

PrngSeeds ==
    {[neg |-> b, mag |-> m] :
        b \in BOOLEAN, m \in {NatLimbs(n) : n \in 0..MaxSeed} \cup WideSeeds}
    \ {[neg |-> TRUE, mag |-> <<>>]}

InitPrng ==
    /\ IdleLayout
    /\ IdleScene
    /\ IdleVenue
    /\ IdleFurther
    /\ session = 0
    /\ prngSeed \in PrngSeeds
    /\ prngOut = <<>>
    /\ calls = <<>>
    /\ jitterCell = NoCell
    /\ renders = <<>>

CallUnitFrom ==
    /\ Len(prngOut) < 2
    /\ prngOut' = Append(prngOut, [mix |-> _mix64(prngSeed), unit |-> _unit_from(prngSeed)])
    /\ UNCHANGED <<session, prngSeed, calls, jitterCell, renders>>
    /\ UNCHANGED layoutVars
    /\ UNCHANGED sceneVars
    /\ UNCHANGED venueVars
    /\ UNCHANGED furtherVars

NextPrng == CallUnitFrom

SpecPrng == InitPrng /\ [][NextPrng]_vars

(***************************************************************************)
(* C10: for every integer seed, _mix64(seed) lies in [0, 2^64) and         *)
(* _unit_from(seed) = (_mix64(seed) >> 11) / 2^53 lies in [0, 1); the same *)
(* seed always yields the same output, and seed 0 yields the value of the  *)
(* described mixer, 0xE220A8397B1DCDAF.                                    *)
(***************************************************************************)
C10_PrngPureTotal ==
    \A i \in 1..Len(prngOut) :
        /\ BelowPow2(prngOut[i].mix, 64)
        /\ BelowPow2(prngOut[i].unit, 53)
        /\ Norm(prngOut[i].unit) = Norm(Shr(prngOut[i].mix, 11))
        /\ prngOut[i] = prngOut[1]
        /\ prngSeed = Pos(<<>>) =>
               Norm(prngOut[i].mix) = <<175, 205, 29, 123, 57, 168, 32, 226>>

C10_Witness ==
    /\ Len(prngOut) = 2
    /\ prngSeed.neg
    /\ ~BelowPow2(prngSeed.mag, 64)
    /\ prngOut[2].mix # <<0, 0, 0, 0, 0, 0, 0, 0>>

(***************************************************************************)
(* _random_color_code, called twice in one process run with the same mask  *)
(* character and config.                                                   *)
(***************************************************************************)
Sessions == {1, 2147483647}

\* values of _random_seed_base: 7 and 0xFFFFFFFF
SeedBases == {<<7>>, <<255, 255, 255, 255>>}

Coords == 0..MaxCoord

MaskChars == DigitChars \cup {"a"}

InitBand ==
    /\ IdleLayout
    /\ IdleScene
    /\ IdleVenue
    /\ IdleFurther
    /\ session \in Sessions
    /\ prngSeed = Pos(<<>>)
    /\ prngOut = <<>>
    /\ calls = <<>>
    /\ jitterCell = NoCell
    /\ renders = <<>>

CallRandomColor ==
    \E mask_char \in MaskChars, x \in Coords, y \in Coords, seed_base \in SeedBases,
       random_config \in RandomConfigs :
        /\ Len(calls) < 2
        /\ Len(calls) = 1 =>
               /\ mask_char = calls[1].mask_char
               /\ random_config = calls[1].random_config
        /\ calls' = Append(calls,
               [mask_char |-> mask_char, x |-> x, y |-> y, seed_base |-> seed_base,
                random_config |-> random_config,
                seed |-> IF mask_char \in DigitChars
                         THEN random_color_seed(DigitOf(mask_char), x, y, seed_base)
                         ELSE <<>>,
                code |-> _random_color_code(mask_char, x, y, seed_base, random_config)])
        /\ UNCHANGED <<session, prngSeed, prngOut, jitterCell, renders>>
        /\ UNCHANGED layoutVars
        /\ UNCHANGED sceneVars
        /\ UNCHANGED venueVars
        /\ UNCHANGED furtherVars

NextBand == CallRandomColor

SpecBand == InitBand /\ [][NextBand]_vars

Sampled(c) == c.mask_char \in DigitChars /\ ~ConfigIsEmpty(c.random_config)

(***************************************************************************)
(* C8: for a band digit 5-9 and a non-empty config, two calls of           *)
(* _random_color_code in one process run return the identical colour       *)
(* whatever their (x, y) and seed_base; for a band digit 0-4 the sampling  *)
(* seed is built from (x, y, seed_base): equal arguments give equal        *)
(* colours and different cells of one seed_base give different seeds.      *)
(***************************************************************************)
C8_BandStability ==
    \A i, j \in 1..Len(calls) :
        (/\ Sampled(calls[i])
         /\ calls[j].mask_char = calls[i].mask_char
         /\ calls[j].random_config = calls[i].random_config) =>
            /\ calls[i].code # {}
            /\ IF DigitOf(calls[i].mask_char) >= 5 THEN
                   /\ calls[i].code = calls[j].code
                   /\ calls[i].seed = calls[j].seed
               ELSE
                   /\ calls[i].seed_base = calls[j].seed_base =>
                          (calls[i].seed = calls[j].seed
                               <=> (calls[i].x = calls[j].x /\ calls[i].y = calls[j].y))
                   /\ calls[i].seed = calls[j].seed => calls[i].code = calls[j].code

C8_Witness ==
    /\ Len(calls) = 2
    /\ Sampled(calls[1])
    /\ DigitOf(calls[1].mask_char) >= 5
    /\ calls[1].x # calls[2].x
    /\ calls[1].y # calls[2].y
    /\ calls[1].seed_base # calls[2].seed_base
    /\ calls[2].code # {}

(***************************************************************************)
(* One jittered cell, rendered twice.                                      *)
(***************************************************************************)
JitterCells ==
    [mask_char : {"w", "k"}, x : Coords, y : Coords, seed_base : SeedBases,
     variation : {1, 2}, jitter_stability : BOOLEAN]

InitJitter ==
    /\ IdleLayout
    /\ IdleScene
    /\ IdleVenue
    /\ IdleFurther
    /\ session = 0
    /\ prngSeed = Pos(<<>>)
    /\ prngOut = <<>>
    /\ calls = <<>>
    /\ jitterCell \in JitterCells
    /\ renders = <<>>

\* the colour of the cell in a render at a wall-clock tick
RenderCell ==
    \E tick \in 0..MaxTick :
        /\ Len(renders) < 2
        /\ renders' = Append(renders,
               [tick |-> tick,
                seed |-> jitter_seed(jitterCell, tick),
                code |-> _jitter_color_code(color_rgb_by_key(jitterCell.mask_char),
                                            jitterCell.variation,
                                            jitter_seed(jitterCell, tick))])
        /\ UNCHANGED <<session, prngSeed, prngOut, calls, jitterCell>>
        /\ UNCHANGED layoutVars
        /\ UNCHANGED sceneVars
        /\ UNCHANGED venueVars
        /\ UNCHANGED furtherVars

NextJitter == RenderCell

SpecJitter == InitJitter /\ [][NextJitter]_vars

(***************************************************************************)
(* C9 as claimed: two renders of a jittered cell at different ticks have   *)
(* the identical colour when stability is true and different colours when  *)
(* stability is false.                                                     *)
(***************************************************************************)
C9_JitterStability ==
    \A i, j \in 1..Len(renders) :
        renders[i].tick # renders[j].tick =>
            IF jitterCell.jitter_stability THEN renders[i].code = renders[j].code
            ELSE renders[i].code # renders[j].code

(***************************************************************************)
(* C9 as amended: with stability true the two renders have the same seed   *)
(* and the identical colour; with stability false their seeds differ, by   *)
(* the xor of the two ticks times 0x9E3779B1 (the colours may coincide).   *)
(***************************************************************************)
C9_JitterStabilityAmended ==
    \A i, j \in 1..Len(renders) :
        renders[i].tick # renders[j].tick =>
            IF jitterCell.jitter_stability THEN
                /\ renders[i].seed = renders[j].seed
                /\ renders[i].code = renders[j].code
            ELSE
                /\ renders[i].seed # renders[j].seed
                /\ Norm(Xor(renders[i].seed, renders[j].seed))
                       = Norm(Xor(Mul(NatLimbs(renders[i].tick), HASH_BAND),
                                  Mul(NatLimbs(renders[j].tick), HASH_BAND)))

C9_Witness ==
    /\ Len(renders) = 2
    /\ jitterCell.jitter_stability
    /\ renders[1].tick # renders[2].tick
    /\ LET base == color_rgb_by_key(jitterCell.mask_char)
       IN  renders[2].code # RgbCode(base[1], base[2], base[3])

(***************************************************************************)
(* One masked cell painted through a palette of one entry.                 *)
(***************************************************************************)
HexCodes ==
    {<<>>,
     <<"#", "f", "f", "0", "0", "f", "f">>,
     <<"f", "f", "0", "0", "f", "f">>,
     <<"#", "#", "0", "0", "0", "0", "f", "f">>,
     <<" ", "#", "0", "0", "f", "f", "0", "0", " ">>,
     <<"#", "f", "f", "0", "0", "f">>,
     <<"#", "f", "f", "0", "0", "f", "f", "f">>,
     <<"#", "g", "g", "0", "0", "0", "0">>,
     <<"#", "-", "f", "-", "f", "-", "f">>}

ColorNames ==
    {<<>>,
     <<"r", "e", "d">>,
     <<"R", "e", "d", " ">>,
     <<"b", "r", "o", "w", "n">>,
     <<"g", "r", "a", "y">>,
     <<"t", "e", "a", "l">>,
     <<"#", "0", "0", "f", "f", "0", "0">>,
     <<"x", "#", "f", "f", "0", "0", "f">>}

ColorEntries ==
    {DictEntry(h, n) : h \in HexCodes, n \in ColorNames}
        \cup {StrEntry(n) : n \in ColorNames} \cup {OtherEntry}

InitPalette ==
    /\ IdleExceptPalette
    /\ colorEntry \in ColorEntries
    /\ maskSite = "none"
    /\ artColor \in {FG_WHITE, FG_GREEN}
    /\ cellOut = {}

\* render_venue_art paints the cell
RenderVenueArtCell ==
    /\ cellOut = {}
    /\ maskSite' = "render_venue_art"
    /\ cellOut' = {apply_color_mask_cell(colorEntry, "x", artColor)}
    /\ UNCHANGED <<colorEntry, artColor>>
    /\ UNCHANGED exceptPaletteVars

\* render_venue_objects paints the cell
RenderVenueObjectsCell ==
    /\ cellOut = {}
    /\ maskSite' = "render_venue_objects"
    /\ cellOut' = {apply_color_mask_cell(colorEntry, "x", artColor)}
    /\ UNCHANGED <<colorEntry, artColor>>
    /\ UNCHANGED exceptPaletteVars

\* render_scene_art paints the cell of an opponent row
RenderSceneArtCell ==
    /\ cellOut = {}
    /\ maskSite' = "render_scene_art"
    /\ cellOut' = {apply_mask_cell(colorEntry, "x")}
    /\ UNCHANGED <<colorEntry, artColor>>
    /\ UNCHANGED exceptPaletteVars

NextPalette ==
    \/ RenderVenueArtCell
    \/ RenderVenueObjectsCell
    \/ RenderSceneArtCell

SpecPalette == InitPalette /\ [][NextPalette]_vars

\* the string is exactly 6 hex digits after its leading "#"
SixHexDigits(code) ==
    LET value == IF code # <<>> /\ code[1] = "#" THEN Tail(code) ELSE code
    IN  Len(value) = 6 /\ \A i \in 1..6 : value[i] \in HexDigits

(***************************************************************************)
(* C11: a palette entry whose hex string does not parse to exactly 6 hex   *)
(* digits has no colour: a cell masked with its key is emitted as the bare *)
(* character, without any escape code.                                     *)
(***************************************************************************)
C11_BadHexNoColour ==
    (/\ cellOut # {}
     /\ colorEntry.kind = "dict"
     /\ strip(colorEntry.hex) # <<>>
     /\ ~SixHexDigits(strip(colorEntry.hex))) => cellOut = {<<"x">>}

(***************************************************************************)
(* One animation request, a melt or a spell overlay, on a list of          *)
(* opponents.                                                              *)
(***************************************************************************)
\* overlay frames are lists of rows; the third effect has a blank first frame
Effects ==
    {Effect(<<>>, {}),
     Effect(<<<<"*">>>>, {}),
     Effect(<<<<>>, <<"*", "*">>>>, {0}),
     Effect(<<<<"*">>>>, {2}),
     Effect(<<<<"*">>, <<"*", "*">>>>, {-1}),
     TupleEffect(<<<<"*">>>>, {2})}

\* the scenes and opponent lists of the melt, no animation requested yet
InitSkip ==
    /\ InitMelt
    /\ IdleOverlay

\* melt_opponent, called when no overlay has been requested
MeltRequest ==
    /\ overlayPc = "idle"
    /\ MeltStart

\* animate_spell_overlay up to its frame loops
OverlayStart ==
    \E index \in Indices(opponents), effect \in Effects :
        /\ overlayPc = "idle"
        /\ meltPc = "idle"
        /\ overlayIndex' = index
        /\ overlayEffect' = effect
        /\ overlayPc' = IF index = {} \/ ~IsFrameList(effect) THEN "done" ELSE "looping"
        /\ UNCHANGED <<overlayLoop, overlayFrameIndex, overlayFrames>>
        /\ UNCHANGED exceptOverlayVars

\* one pass of the inner loop of animate_spell_overlay: a render and a sleep
OverlayFrame ==
    /\ overlayPc = "looping"
    /\ overlayFrames' = Append(overlayFrames,
           [frame_index |-> overlayFrameIndex,
            gap_override |-> compute_scene_gap_target(scene, opponents),
            suppress_actions |-> TRUE,
            targets |-> OverlayTargets(opponents, overlayIndex, overlayEffect,
                                       overlayFrameIndex)])
    /\ IF overlayFrameIndex + 1 < Len(overlayEffect.frames) THEN
           /\ overlayFrameIndex' = overlayFrameIndex + 1
           /\ UNCHANGED <<overlayLoop, overlayPc>>
       ELSE
           /\ overlayFrameIndex' = 0
           /\ overlayLoop' = overlayLoop + 1
           /\ overlayPc' = IF overlayLoop + 1 < EffectLoops(overlayEffect)
                           THEN "looping" ELSE "done"
    /\ UNCHANGED <<overlayIndex, overlayEffect>>
    /\ UNCHANGED exceptOverlayVars

NextSkip ==
    \/ MeltRequest
    \/ MeltFrame
    \/ OverlayStart
    \/ OverlayFrame

SpecSkip == InitSkip /\ [][NextSkip]_vars

\* the index is None or outside [0, len(opponents))
NotAnOccupant(index) ==
    \A n \in index : n < 0 \/ n >= Len(opponents)

(***************************************************************************)
(* C12: a melt whose index is None or outside [0, len(opponents)) renders  *)
(* no frame; a spell overlay with such an index draws the overlay on no    *)
(* occupant in any frame it renders; and no step of either animation       *)
(* changes the opponent list.                                              *)
(***************************************************************************)
C12_SilentSkip ==
    /\ [](/\ (meltPc # "idle" /\ NotAnOccupant(meltIndex)) =>
                 (meltPc = "done" /\ frames = <<>>)
          /\ (overlayPc # "idle" /\ NotAnOccupant(overlayIndex)) =>
                 \A k \in 1..Len(overlayFrames) : overlayFrames[k].targets = {}
          /\ (overlayPc # "idle" /\ overlayIndex = {}) =>
                 (overlayPc = "done" /\ overlayFrames = <<>>))
    /\ [][opponents' = opponents]_vars

C12_Witness ==
    /\ overlayPc = "done"
    /\ overlayIndex = {Len(opponents)}
    /\ Len(overlayFrames) = 2
    /\ Len(opponents) = 2

(***************************************************************************)
(* The battle scene drawn between attacks: the scene and the opponent list *)
(* are fixed, _handle_attack lowers the hp of a live opponent, and         *)
(* render_scene_art draws the opponents as they are.                       *)
(***************************************************************************)
ArtSprites ==
    {<<>>,
     <<<<"#">>>>,
     <<<<" ", "#", "#">>, <<>>>>,
     <<Repeat("#", OPPONENT_ART_WIDTH + 1), <<"#", " ">>, <<"#">>>>}

ArtOpponents ==
    {ArtOpponent(art, hp, IF Len(art) = 2 THEN <<>> ELSE FG_RED) :
        art \in ArtSprites, hp \in 0..3}

ArtOpponentLists == UNION {[1..n -> ArtOpponents] : n \in 1..2}

ArtScenes ==
    {ArtScene(0, 0, 3, {}, {}), ArtScene(0, 0, 1, {}, {30}),
     ArtScene(2, 0, 0, {}, {}), ArtScene(4, 5, 0, {30}, {})}

\* what one render shows of the layout: the number of rows, the gap width of
\* every row, the columns of the blocks in the rows that hold them, and the
\* rows and the visible widths of every block before the blocks are levelled
Layout(sc, opps, include_bars, art_color) ==
    LET gaps == render_scene_art(sc, opps, {}, include_bars, art_color)
        idx == WithArt(opps, 1)
    IN  [hp |-> [k \in 1..Len(opps) |-> opps[k].hp],
         rows |-> Len(gaps),
         gap_widths |-> [r \in 1..Len(gaps) |-> Len(strip_ansi(gaps[r].fill))],
         offsets |-> [r \in 1..Len(gaps) |-> gaps[r].offsets],
         block_rows |-> [b \in 1..Len(idx) |->
                            Len(BlockLines(opps[idx[b] + 1], idx[b], {"all"},
                                           include_bars, {}))],
         block_widths |-> [b \in 1..Len(idx) |->
                              LET lines == BlockLines(opps[idx[b] + 1], idx[b], {"all"},
                                                      include_bars, {})
                              IN  {Len(strip_ansi(lines[k])) : k \in 1..Len(lines)}]]

InitArt ==
    /\ IdleExceptArt
    /\ artScene \in ArtScenes
    /\ artOpponents \in ArtOpponentLists
    /\ artBars \in BOOLEAN
    /\ artRenders = <<>>

\* _handle_attack on a live opponent that does not miss
_handle_attack ==
    \E i \in 1..Len(artOpponents), damage \in 1..3 :
        /\ artOpponents[i].hp > 0
        /\ artOpponents' =
               [artOpponents EXCEPT ![i].hp = Max(0, artOpponents[i].hp - damage),
                                    ![i].melted =
                                        IF artOpponents[i].hp - damage <= 0 THEN FALSE
                                        ELSE artOpponents[i].melted]
        /\ UNCHANGED <<artScene, artBars, artRenders>>
        /\ UNCHANGED exceptArtVars

\* one call of render_scene_art
RenderSceneArt ==
    /\ Len(artRenders) < 2
    /\ artRenders' = Append(artRenders, Layout(artScene, artOpponents, artBars, FG_GREEN))
    /\ UNCHANGED <<artScene, artOpponents, artBars>>
    /\ UNCHANGED exceptArtVars

NextArt ==
    \/ _handle_attack
    \/ RenderSceneArt

SpecArt == InitArt /\ [][NextArt]_vars

\* the opponents that have art, in list order
ArtBlocks == WithArt(artOpponents, 1)

(***************************************************************************)
(* C13: in every render the block of an opponent with art is               *)
(* OPPONENT_ART_WIDTH wide and has its sprite rows plus the health-bar row *)
(* (when bars are drawn), whether its hp is positive or not; and any two   *)
(* renders of the same scene and opponent list have the same number of     *)
(* rows, the same gap width in every row and the same column for every     *)
(* block, whatever the hp values were.                                     *)
(***************************************************************************)
C13_LayoutStability ==
    /\ \A r \in 1..Len(artRenders) :
           /\ Len(artRenders[r].block_rows) = Len(ArtBlocks)
           /\ \A b \in 1..Len(ArtBlocks) :
                  /\ artRenders[r].block_rows[b] =
                         Len(artOpponents[ArtBlocks[b] + 1].art_lines)
                             + (IF artBars THEN 1 ELSE 0)
                  /\ artRenders[r].block_widths[b] = {OPPONENT_ART_WIDTH}
    /\ \A r1, r2 \in 1..Len(artRenders) :
           /\ artRenders[r1].rows = artRenders[r2].rows
           /\ artRenders[r1].gap_widths = artRenders[r2].gap_widths
           /\ artRenders[r1].offsets = artRenders[r2].offsets

\* two renders of two opponents with art: both alive in the first, the first
\* one dead in the second
C13_Witness ==
    /\ Len(artRenders) = 2
    /\ Len(ArtBlocks) = 2
    /\ artBars
    /\ \A k \in 1..2 : artRenders[1].hp[k] > 0
    /\ artRenders[2].hp[1] = 0
    /\ artRenders[2].hp[2] > 0

(***************************************************************************)
(* The battle log on the screen: push_battle_message adds a message to the *)
(* log and render_frame shows as much of the body as the narrative rows    *)
(* hold.                                                                   *)
(***************************************************************************)
MaxMessages == 8

MaxBody == 5

InitFrame ==
    /\ IdleExceptFrame
    /\ frameLocation \in {"Forest", "Town"}
    /\ battle_log = <<>>
    /\ last_message = 0
    /\ frameShown = {}

\* push_battle_message with the next message
push_battle_message ==
    /\ last_message < MaxMessages
    /\ last_message' = last_message + 1
    /\ battle_log' =
           IF frameLocation # "Forest" THEN battle_log
           ELSE LET log == Append(battle_log, last_message + 1)
                IN  IF Len(log) > max_lines
                    THEN SubSeq(log, Len(log) - max_lines + 1, Len(log))
                    ELSE log
    /\ UNCHANGED <<frameLocation, frameShown>>
    /\ UNCHANGED exceptFrameVars

\* render_frame on the frame of the current state
RenderFrame ==
    \E body_height \in 0..MaxBody, art_count \in 0..2, status_len \in 0..1 :
        LET body_lines == FrameBody(frameLocation, battle_log, last_message)
            space == narrative_space(body_height, art_count, status_len)
        IN  /\ frameShown' = {[body_lines |-> body_lines,
                               narrative_space |-> space,
                               visible_lines |->
                                   visible_lines(frameLocation, body_lines, space)]}
            /\ UNCHANGED <<frameLocation, battle_log, last_message>>
            /\ UNCHANGED exceptFrameVars

NextFrame ==
    \/ push_battle_message
    \/ RenderFrame

SpecFrame == InitFrame /\ [][NextFrame]_vars

\* the frame is in the scrolling mode and its body does not fit
Overflows(f) ==
    frameLocation = "Forest" /\ Len(f.body_lines) > f.narrative_space

(***************************************************************************)
(* C14 as stated: a Forest frame whose body has more lines than narrative  *)
(* rows shows the least recently added lines, the head of the body.        *)
(***************************************************************************)
C14_KeepsOldest ==
    \A f \in frameShown :
        Overflows(f) => f.visible_lines = SubSeq(f.body_lines, 1, f.narrative_space)

(***************************************************************************)
(* C14 amended: a Forest frame whose body has more lines than narrative    *)
(* rows shows the most recently added lines: the last narrative_space      *)
(* lines of the body in their order, so every line it drops was added      *)
(* before every line it shows.                                             *)
(***************************************************************************)
C14_KeepsNewest ==
    \A f \in frameShown :
        Overflows(f) =>
            /\ f.visible_lines =
                   SubSeq(f.body_lines, Len(f.body_lines) - f.narrative_space + 1,
                          Len(f.body_lines))
            /\ \A k \in 1..Len(f.body_lines) - f.narrative_space,
                  j \in 1..Len(f.visible_lines) :
                   f.body_lines[k] < f.visible_lines[j]

\* a log trimmed by push_battle_message, of which the frame shows the last three
C14_Witness ==
    \E f \in frameShown :
        /\ Overflows(f)
        /\ f.narrative_space = 3
        /\ Len(f.body_lines) = max_lines + 1
        /\ f.visible_lines = <<6, 7, 8>>

(***************************************************************************)
(* The vertical placement of the assets render_venue_objects blits.        *)
(***************************************************************************)
\* entry k is an asset that has art
HasArt(k) == IsAsset(k) /\ _obj_art(positions[k].id) # <<>>

AssetHeight(k) == Len(_obj_art(positions[k].id))

\* the align of entry k, in quarters
AssetAlign(k) == _obj_align(positions[k].entry, positions[k].id)

\* the cells a blit of the art of entry k paints when its top row is row y
BlitCellsAt(k, y) ==
    LET art == _obj_art(positions[k].id)
    IN  UNION {{<<y + r - 1, positions[k].x + c - 1>> :
                   c \in {c \in 1..Len(art[r]) : art[r][c] # " "}} : r \in 1..Len(art)}

(***************************************************************************)
(* C15 as stated: every asset with art of height h is painted with its top *)
(* row at y = round((1 - align) * (H - h)) on a canvas of height H.        *)
(***************************************************************************)
C15_RoundedTop ==
    venuePc = "rendered" =>
        \A k \in 1..Len(positions) :
            HasArt(k) =>
                CellsOf(k) = BlitCellsAt(k, RoundQuarters((4 - AssetAlign(k))
                                                * (max_height - AssetHeight(k))))

(***************************************************************************)
(* C15, what the blit does: an asset with art of height h is painted with *)
(* its top row at floor((1 - align) * (H - h)); align = 0 puts its last row on *)
(* the bottom row of the canvas, align = 1 its first row on the top row,   *)
(* and for every align in [0, 1] all h rows lie inside the canvas.         *)
(***************************************************************************)
C15_TruncatedTop ==
    venuePc = "rendered" =>
        \A k \in 1..Len(positions) :
            HasArt(k) =>
                LET h == AssetHeight(k)
                    y == ((4 - AssetAlign(k)) * (max_height - h)) \div 4
                IN  /\ CellsOf(k) = BlitCellsAt(k, y)
                    /\ AssetAlign(k) = 0 => y + h - 1 = max_height - 1
                    /\ AssetAlign(k) = 4 => y = 0
                    /\ AssetAlign(k) \in 0..4 => (0 <= y /\ y + h <= max_height)
                    /\ \A w \in writes[k] : w.y \in y..(y + h - 1)

\* an asset with align 0.25 that is one row shorter than the canvas: its top
\* row is row 0, where round(0.75) would be row 1
C15_Witness ==
    /\ venuePc = "rendered"
    /\ \E k \in 1..Len(positions) :
           /\ HasArt(k)
           /\ AssetAlign(k) = 1
           /\ max_height - AssetHeight(k) = 1
           /\ CellsOf(k) = BlitCellsAt(k, 0)
           /\ CellsOf(k) # BlitCellsAt(k, 1)

(***************************************************************************)
(* scene_commands, called once for a scene, a player and an opponent list. *)
(***************************************************************************)
MaxCommands == 2

SceneCommandSet ==
    {Command("N", "", "TITLE_NEW"), Command("m", "", "SCENE_MAGIC"),
     Command("_", "", "SCENE_HIDDEN"), Command("", "", "SCENE_NO_KEY"),
     Command("a", "has_opponents", "ATTACK"), Command("r", "needs_rest", "REST")}

GlobalCommandSet ==
    {Command("M", "", "SPELLBOOK"), Command("n", "no_opponents", "GLOBAL_N"),
     Command("_", "", "GLOBAL_HIDDEN"), Command("A", "has_save", "CONTINUE")}

InitCommands ==
    /\ IdleExceptCommands
    /\ cmdScene \in {[id |-> i, commands |-> c] :
                        i \in {"title", "town"},
                        c \in UNION {[1..n -> SceneCommandSet] : n \in 0..MaxCommands}}
    /\ cmdGlobal \in UNION {[1..n -> GlobalCommandSet] : n \in 0..MaxCommands}
    /\ cmdPlayer \in {CommandPlayer(hp, s) : hp \in {1, 2}, s \in BOOLEAN}
    /\ cmdOpponents \in {<<>>, <<[hp |-> 0]>>, <<[hp |-> 0], [hp |-> 2]>>}
    /\ cmdResult = {}

SceneCommands ==
    /\ cmdResult = {}
    /\ \E include_hidden \in BOOLEAN :
           cmdResult' = {[include_hidden |-> include_hidden,
                          commands |-> scene_commands(cmdScene.commands, cmdGlobal, cmdScene.id,
                                                      cmdPlayer, cmdOpponents, include_hidden)]}
    /\ UNCHANGED <<cmdScene, cmdGlobal, cmdPlayer, cmdOpponents>>
    /\ UNCHANGED exceptCommandsVars

NextCommands == SceneCommands

SpecCommands == InitCommands /\ [][NextCommands]_vars

\* the when condition of a command holds
WhenHolds(command) ==
    /\ command.when = "has_opponents" => \E k \in 1..Len(cmdOpponents) : cmdOpponents[k].hp > 0
    /\ command.when = "no_opponents" => \A k \in 1..Len(cmdOpponents) : cmdOpponents[k].hp <= 0
    /\ command.when = "needs_rest" =>
           (cmdPlayer.hp < cmdPlayer.max_hp \/ cmdPlayer.mp < cmdPlayer.max_mp)
    /\ command.when = "has_save" => cmdPlayer.has_save

\* the commands that pass the filter, in order
RECURSIVE Passing(_)
Passing(commands) ==
    IF commands = <<>> THEN <<>>
    ELSE (IF WhenHolds(Head(commands)) THEN <<Head(commands)>> ELSE <<>>)
             \o Passing(Tail(commands))

\* the candidates of the call: the scene's passing commands, then (off the
\* title screen) the passing global commands
Candidates ==
    Passing(cmdScene.commands) \o (IF cmdScene.id = "title" THEN <<>> ELSE Passing(cmdGlobal))

\* candidate p is kept: it has a key, is not hidden, and no earlier candidate
\* has the same key up to case
Kept(p, include_hidden) ==
    /\ Candidates[p].key # ""
    /\ include_hidden \/ Candidates[p].key # "_"
    /\ \A q \in 1..(p - 1) : lower_key(Candidates[q].key) # lower_key(Candidates[p].key)

RECURSIVE KeptFrom(_, _)
KeptFrom(p, include_hidden) ==
    IF p > Len(Candidates) THEN <<>>
    ELSE (IF Kept(p, include_hidden) THEN <<Candidates[p]>> ELSE <<>>)
             \o KeptFrom(p + 1, include_hidden)

(***************************************************************************)
(* C16: on the title screen scene_commands returns only commands of the    *)
(* scene itself and no global command; for any other scene it returns the  *)
(* passing scene commands followed by the passing global commands; in both *)
(* cases it keeps, for each key compared without case, the first command   *)
(* only, and drops the commands with an empty key and, unless              *)
(* include_hidden is set, those whose key is "_".                          *)
(***************************************************************************)
C16_SceneCommands ==
    \A res \in cmdResult :
        /\ res.commands = KeptFrom(1, res.include_hidden)
        /\ cmdScene.id = "title" =>
               \A k \in 1..Len(res.commands) :
                   /\ res.commands[k] \notin GlobalCommandSet
                   /\ \E j \in 1..Len(cmdScene.commands) :
                          cmdScene.commands[j] = res.commands[k]

\* the title screen with a scene command and a global command that would
\* pass and would not be shadowed
C16_Witness ==
    \E res \in cmdResult :
        /\ cmdScene.id = "title"
        /\ Len(res.commands) = 1
        /\ res.commands[1].command = "TITLE_NEW"
        /\ Len(cmdGlobal) = 1
        /\ cmdGlobal[1].command = "SPELLBOOK"

(***************************************************************************)
(* handle_command, called with ENTER_VENUE or ENTER_SCENE and a key, in    *)
(* Town or in the Forest.                                                  *)
(***************************************************************************)
MaxCalls == 1

RouterKeys == {"", "f", "S", "h", "i", "x", "z", "t", "m", "q"}

RouterOpponent(name, hp, max_hp) == [name |-> name, hp |-> hp, max_hp |-> max_hp]

\* what opponents_data.spawn can return: one or two opponents at full hp
Spawns ==
    {<<RouterOpponent("Slime", 3, 3)>>, <<RouterOpponent("Bat", 2, 2)>>,
     <<RouterOpponent("Slime", 3, 3), RouterOpponent("Bat", 2, 2)>>}

\* the strips build_strip can leave in objects_left and objects_right
ForestStrips ==
    {<<<<"tree_large">>, <<"bush_large">>>>,
     <<<<"bush_large", "tree_large">>, <<"tree_large">>>>}

Modes == [1..5 -> BOOLEAN]

InitRouter ==
    /\ IdleExceptRouter
    /\ state \in
           {CommandState("Town", <<>>, NoLoot, message, modes, hall_view) :
               message \in {<<>>, <<"old">>}, modes \in Modes, hall_view \in {"menu", "info"}}
           \cup
           {CommandState("Forest", opps, loot, message, modes, hall_view) :
               opps \in {<<>>, <<RouterOpponent("Slime", 0, 3)>>,
                         <<RouterOpponent("Slime", 1, 3)>>,
                         <<RouterOpponent("Bat", 0, 2), RouterOpponent("Slime", 2, 3)>>},
               loot \in {NoLoot, [xp |-> 5, gold |-> 3]},
               message \in {<<>>, <<"old">>},
               modes \in {m \in Modes : ~m[1] /\ ~m[3] /\ ~m[4]},
               hall_view \in {"menu", "info"}}
    /\ routerCall = {}
    /\ routerCtx = [saved |-> {}, forest_strips |-> {}, forest_gap_min |-> {}]

CallsSoFar == IF routerCall = {} THEN 0 ELSE (CHOOSE c \in routerCall : TRUE).n

\* handle_command("ENTER_VENUE", state, ctx, key)
HandleEnterVenue ==
    /\ CallsSoFar < MaxCalls
    /\ \E key \in RouterKeys :
           LET venue_id == _command_target(state, "ENTER_VENUE", key)
               res == EnterVenue(state, venue_id)
           IN  /\ state' = res.state
               /\ routerCall' = {[n |-> CallsSoFar + 1, command_id |-> "ENTER_VENUE",
                                  key |-> key, target |-> venue_id, before |-> state,
                                  handled |-> res.handled]}
    /\ UNCHANGED routerCtx
    /\ UNCHANGED exceptRouterVars

\* handle_command("ENTER_SCENE", state, ctx, key)
HandleEnterScene ==
    /\ CallsSoFar < MaxCalls
    /\ \E key \in RouterKeys, spawned \in Spawns, strips \in ForestStrips :
           LET scene_id == _command_target(state, "ENTER_SCENE", key)
               res == IF scene_id = {}
                      THEN [state |-> state, handled |-> FALSE, saved |-> FALSE,
                            built |-> FALSE]
                      ELSE _enter_scene(CHOOSE t \in scene_id : TRUE, state, spawned)
           IN  /\ state' = res.state
               /\ routerCall' = {[n |-> CallsSoFar + 1, command_id |-> "ENTER_SCENE",
                                  key |-> key, target |-> scene_id, before |-> state,
                                  handled |-> res.handled]}
               /\ routerCtx' =
                      [saved |-> IF res.saved THEN {res.state.location} ELSE routerCtx.saved,
                       forest_strips |-> IF res.built THEN {strips}
                                         ELSE routerCtx.forest_strips,
                       forest_gap_min |-> IF res.built THEN {0} ELSE routerCtx.forest_gap_min]
    /\ UNCHANGED exceptRouterVars

NextRouter ==
    \/ HandleEnterVenue
    \/ HandleEnterScene

SpecRouter == InitRouter /\ [][NextRouter]_vars

\* the five mode flags of a state, in the order shop, inventory, hall, inn, spell
ModeFlags(st) ==
    <<st.shop_mode, st.inventory_mode, st.hall_mode, st.inn_mode, st.spell_mode>>

\* the mode flags after entering a venue
VenueFlags(venue_id) ==
    <<venue_id = "town_shop", FALSE, venue_id = "town_hall", venue_id = "town_inn", FALSE>>

(***************************************************************************)
(* C17: an ENTER_VENUE call whose key resolves to town_shop, town_hall or  *)
(* town_inn returns True, leaves that venue's mode flag true and the other *)
(* four false, and leaves last_message the venue's welcome message, or as  *)
(* it was when the venue has none; a call that resolves to no target or to *)
(* another venue returns False and leaves every field of the state as it   *)
(* was.                                                                    *)
(***************************************************************************)
C17_EnterVenue ==
    \A c \in routerCall :
        c.command_id = "ENTER_VENUE" =>
            IF c.target \subseteq {"town_shop", "town_hall", "town_inn"} /\ c.target # {}
            THEN \A v \in c.target :
                     /\ c.handled
                     /\ ModeFlags(state) = VenueFlags(v)
                     /\ state.last_message =
                            (IF v = "town_shop" THEN <<"Welcome to the shop.">>
                             ELSE IF v = "town_hall" THEN <<"Welcome to the hall.">>
                             ELSE c.before.last_message)
            ELSE ~c.handled /\ state = c.before

\* the inn, which has no welcome message, entered from the shop
C17_Witness ==
    \E c \in routerCall :
        /\ c.command_id = "ENTER_VENUE"
        /\ c.target = {"town_inn"}
        /\ c.before.shop_mode
        /\ c.before.spell_mode
        /\ c.before.last_message = <<"old">>
        /\ state.inn_mode
        /\ state.last_message = <<"old">>

(***************************************************************************)
(* C18: an ENTER_SCENE call that resolves to "forest" while the player is  *)
(* in Town returns True and leaves the player in the Forest, the opponents *)
(* a fresh spawn, the loot bank at zero xp and zero gold and all five mode *)
(* flags false; the same call in the Forest with a live opponent returns   *)
(* True and changes nothing of the state but the message.                  *)
(***************************************************************************)
C18_EnterForest ==
    \A c \in routerCall :
        (c.command_id = "ENTER_SCENE" /\ c.target = {"forest"}) =>
            /\ c.before.location = "Town" =>
                   /\ c.handled
                   /\ state.location = "Forest"
                   /\ state.opponents \in Spawns
                   /\ state.loot_bank = NoLoot
                   /\ ModeFlags(state) = <<FALSE, FALSE, FALSE, FALSE, FALSE>>
            /\ (c.before.location = "Forest" /\ HasPrimary(c.before.opponents)) =>
                   /\ c.handled
                   /\ state = [c.before EXCEPT !.last_message = state.last_message]

\* the forest entered from the shop in Town
C18_Witness ==
    \E c \in routerCall :
        /\ c.command_id = "ENTER_SCENE"
        /\ c.target = {"forest"}
        /\ c.before.location = "Town"
        /\ c.before.shop_mode
        /\ state.location = "Forest"
        /\ Len(state.opponents) = 2

(***************************************************************************)
(* SpellsData with a loaded table, looked up by command id and by menu     *)
(* key.                                                                    *)
(***************************************************************************)
MaxSpells == 3

SpellIds == {"healing", "spark", "fire"}

SpellCommandIds == {"HEAL", "SPARK"}

SpellMenuKeys == {"NUM1", "NUM2"}

SpellSet ==
    {Spell(i, c, k) : i \in SpellIds,
                      c \in {{}} \cup {{x} : x \in SpellCommandIds},
                      k \in {{}} \cup {{x} : x \in SpellMenuKeys}}

\* the tables: no spell id twice, as the keys of a dict
SpellTables ==
    UNION {{t \in [1..n -> SpellSet] :
               \A a, b \in 1..n : a # b => t[a].spell_id # t[b].spell_id} :
           n \in 0..Min(MaxSpells, Cardinality(SpellIds))}

InitSpells ==
    /\ IdleExceptSpells
    /\ spells \in SpellTables
    /\ lookup = {}

ByCommandId ==
    /\ \E command_id \in SpellCommandIds \cup {"UNKNOWN"} :
           lookup' = {[by |-> "command_id", arg |-> command_id,
                       result |-> by_command_id(spells, command_id)]}
    /\ UNCHANGED spells
    /\ UNCHANGED exceptSpellsVars

ByMenuKey ==
    /\ \E menu_key \in SpellMenuKeys \cup {"NUM9"} :
           lookup' = {[by |-> "menu_key", arg |-> menu_key,
                       result |-> by_menu_key(spells, menu_key)]}
    /\ UNCHANGED spells
    /\ UNCHANGED exceptSpellsVars

NextSpells ==
    \/ ByCommandId
    \/ ByMenuKey

SpecSpells == InitSpells /\ [][NextSpells]_vars

\* the value of the looked-up field of the spell at position k
FieldOf(l, k) ==
    IF l.by = "command_id" THEN spells[k].spell.command_id ELSE spells[k].spell.menu_key

\* the positions of the spells that match lookup l
Matches(l) == {k \in 1..Len(spells) : FieldOf(l, k) = {l.arg}}

(***************************************************************************)
(* C19: by_command_id(c) returns the pair (spell_id, spell) of the first   *)
(* spell of the table whose command_id is c, and None when no spell has    *)
(* it; by_menu_key(k) does the same with menu_key; and no lookup changes   *)
(* the table.                                                              *)
(***************************************************************************)
C19_Lookups ==
    /\ [](\A l \in lookup :
              IF Matches(l) = {} THEN l.result = {}
              ELSE \E k \in Matches(l) :
                       /\ \A j \in Matches(l) : k <= j
                       /\ l.result = {<<spells[k].spell_id, spells[k].spell>>})
    /\ [][spells' = spells]_vars

\* two spells share the command id looked up and the first one is returned
C19_Witness ==
    /\ Len(spells) = 3
    /\ spells[2].spell.command_id = {"HEAL"}
    /\ spells[3].spell.command_id = {"HEAL"}
    /\ spells[1].spell.command_id = {}
    /\ \E l \in lookup :
           /\ l.by = "command_id"
           /\ l.arg = "HEAL"
           /\ l.result = {<<spells[2].spell_id, spells[2].spell>>}

(***************************************************************************)
(* animate_scene_gap, called once with a start gap, an end gap and a       *)
(* number of steps.                                                        *)
(***************************************************************************)
MaxGapWidth == 8

MaxSteps == 6

InitAnim ==
    /\ IdleExceptAnim
    /\ animPc = "idle"
    /\ animArgs \in [start_gap : 0..MaxGapWidth, end_gap : 0..MaxGapWidth,
                     steps : (0 - 1)..MaxSteps]
    /\ animStep = 0
    /\ animFrames = <<>>

\* the call up to the loop: the early return when there is nothing to animate
AnimateSceneGap ==
    /\ animPc = "idle"
    /\ IF animArgs.start_gap = animArgs.end_gap \/ animArgs.steps <= 0
       THEN animPc' = "done" /\ animStep' = animStep
       ELSE animPc' = "looping" /\ animStep' = 1
    /\ UNCHANGED <<animArgs, animFrames>>
    /\ UNCHANGED exceptAnimVars

\* one pass of the loop: render_scene_frame with the gap of the step, and a sleep
GapFrame ==
    /\ animPc = "looping"
    /\ animFrames' = Append(animFrames,
           [gap_override |-> step_gap(animArgs.start_gap, animArgs.end_gap, animStep,
                                      animArgs.steps),
            suppress_actions |-> TRUE])
    /\ IF animStep < animArgs.steps
       THEN animStep' = animStep + 1 /\ animPc' = "looping"
       ELSE animStep' = animStep /\ animPc' = "done"
    /\ UNCHANGED animArgs
    /\ UNCHANGED exceptAnimVars

NextAnim ==
    \/ AnimateSceneGap
    \/ GapFrame

SpecAnim == InitAnim /\ [][NextAnim]_vars

\* g is an integer nearest to start_gap + (end_gap - start_gap) * k / steps
NearestGap(g, k) ==
    LET num == animArgs.start_gap * animArgs.steps
                   + (animArgs.end_gap - animArgs.start_gap) * k
        d == g * animArgs.steps - num
    IN  2 * (IF d < 0 THEN 0 - d ELSE d) <= animArgs.steps

\* g lies between a and b
Between(g, a, b) == (a <= g /\ g <= b) \/ (b <= g /\ g <= a)

(***************************************************************************)
(* C20: with start_gap # end_gap and steps N > 0, animate_scene_gap        *)
(* renders N frames in all, the k-th with the gap width                    *)
(* start_gap + (end_gap - start_gap) * k / N rounded to an integer, so the *)
(* widths never move away from end_gap and the N-th is end_gap; every      *)
(* frame is rendered with the action panel suppressed; with start_gap =    *)
(* end_gap or N <= 0 it renders no frame.                                  *)
(***************************************************************************)
C20_GapTransition ==
    /\ Len(animFrames) <= Max(animArgs.steps, 0)
    /\ animPc = "done" =>
           Len(animFrames) =
               (IF animArgs.start_gap = animArgs.end_gap \/ animArgs.steps <= 0 THEN 0
                ELSE animArgs.steps)
    /\ \A k \in 1..Len(animFrames) :
           /\ NearestGap(animFrames[k].gap_override, k)
           /\ animFrames[k].suppress_actions
           /\ Between(animFrames[k].gap_override,
                      IF k = 1 THEN animArgs.start_gap ELSE animFrames[k - 1].gap_override,
                      animArgs.end_gap)
           /\ k = animArgs.steps => animFrames[k].gap_override = animArgs.end_gap

\* six frames from gap 2 to gap 7: 3, 4, 4, 5, 6, 7
C20_Witness ==
    /\ animPc = "done"
    /\ animArgs = [start_gap |-> 2, end_gap |-> 7, steps |-> 6]
    /\ [k \in 1..Len(animFrames) |-> animFrames[k].gap_override] = <<3, 4, 4, 5, 6, 7>>

(***************************************************************************)
(* animate_spell_overlay as a loop that is left to run: every pass of its  *)
(* inner loop is a render and a sleep of bounded length inside one call,   *)
(* so a pass that can be taken is taken.                                   *)
(***************************************************************************)
SpecOverlayLoop == InitSkip /\ [][NextSkip]_vars /\ WF_vars(OverlayFrame)

\* max(1, loops), loops being effect["loops"] or 1 when the effect has none
ClaimedLoops(effect) ==
    Max(1, IF effect.loops = {} THEN 1 ELSE CHOOSE n \in effect.loops : TRUE)

\* the frame indices 0 .. len(frames)-1, in that order, once per loop
InLoopOrder(rendered, effect) ==
    /\ Len(rendered) = ClaimedLoops(effect) * Len(effect.frames)
    /\ \A k \in 1..Len(rendered) :
           rendered[k].frame_index = (k - 1) % Len(effect.frames)

(***************************************************************************)
(* C21: animate_spell_overlay with a non-None index and a non-empty list   *)
(* of frames ends after exactly max(1, loops) * len(frames) renders, with  *)
(* the frame indices 0 .. len(frames)-1 in that order once per loop; with  *)
(* index None or a frame list that is empty or not a list it renders       *)
(* nothing; and a started sequence is only ever continued by its own next  *)
(* frame until it is done.                                                 *)
(***************************************************************************)
C21_OverlayLoop ==
    /\ [](overlayPc = "done" =>
             IF overlayIndex # {} /\ overlayEffect.is_list /\ overlayEffect.frames # <<>>
             THEN InLoopOrder(overlayFrames, overlayEffect)
             ELSE overlayFrames = <<>>)
    /\ [][overlayPc = "looping" =>
             /\ overlayPc' \in {"looping", "done"}
             /\ Len(overlayFrames') = Len(overlayFrames) + 1
             /\ UNCHANGED <<overlayIndex, overlayEffect, meltPc, frames>>]_vars
    /\ (overlayPc = "looping" ~> overlayPc = "done")

C21_Witness ==
    /\ overlayPc = "done"
    /\ overlayEffect.loops = {2}
    /\ overlayEffect.is_list
    /\ Len(overlayFrames) = 2
    /\ overlayIndex # {}

(***************************************************************************)
(* One render_scene_art call with a spell overlay, on opponents with and   *)
(* without a colour mask.  A colour map has at most as many rows as the    *)
(* sprite.                                                                 *)
(***************************************************************************)
MaxFrameIndex == 2

PlaceSprites == {<<>>, [k \in 1..3 |-> Repeat("#", 5)], [k \in 1..2 |-> Repeat("#", 2)]}

\* no colour map, one that covers every sprite row, one that covers the first row
PlaceMasks(art) ==
    {<<>>, [k \in 1..Len(art) |-> Repeat("a", Len(art[k]))],
     IF art = <<>> THEN <<>> ELSE <<Repeat("a", Len(art[1]))>>}

PlaceOpponents ==
    UNION {{MaskedOpponent(art, hp, color_map) : hp \in {0, 3}, color_map \in PlaceMasks(art)} :
              art \in PlaceSprites}

PlaceOpponentLists == UNION {[1..n -> PlaceOpponents] : n \in 1..2}

\* overlay frames: one cell; taller than any sprite; wider than the block;
\* two rows with blanks
PlaceFrames ==
    <<<<<<"*">>>>,
      <<<<"*", " ", "*">>, <<"*", "*", "*">>, <<"*", " ", "*">>, <<"*", "*", "*">>>>,
      <<Repeat("x", OPPONENT_ART_WIDTH + 3)>>,
      <<<<" ", "+">>, <<"+">>>>>>

PlaceEffects ==
    {Effect(<<PlaceFrames[1], PlaceFrames[4]>>, {}),
     Effect(<<PlaceFrames[2], PlaceFrames[3], <<>>>>, {}),
     TupleEffect(<<PlaceFrames[1]>>, {})}

InitPlace ==
    /\ IdleExceptPlace
    /\ placeOpponents \in PlaceOpponentLists
    /\ placePalette \in BOOLEAN
    /\ placeRender = {}

\* render_scene_art(..., overlay_target_index, overlay_effect, overlay_frame_index)
RenderOverlay ==
    \E index \in {{}} \cup {{n} : n \in 0..Len(placeOpponents)},
       effect \in PlaceEffects,
       frame_index \in 0..MaxFrameIndex,
       include_bars \in BOOLEAN :
        /\ placeRender = {}
        /\ placeRender' =
               {[index |-> index, effect |-> effect, frame_index |-> frame_index,
                 include_bars |-> include_bars,
                 base |-> OverlayBlocks(placeOpponents, placePalette, include_bars,
                                        {}, NoEffect, 0),
                 blocks |-> OverlayBlocks(placeOpponents, placePalette, include_bars,
                                          index, effect, frame_index)]}
        /\ UNCHANGED <<placeOpponents, placePalette>>
        /\ UNCHANGED exceptPlaceVars

NextPlace == RenderOverlay

SpecPlace == InitPlace /\ [][NextPlace]_vars

\* the current frame of a render when its overlay targets occupant i, <<>> otherwise
CurrentFrame(r, i) ==
    IF r.index = {i} /\ r.effect.is_list /\ r.effect.frames # <<>>
    THEN r.effect.frames[(r.frame_index % Len(r.effect.frames)) + 1]
    ELSE <<>>

\* the overlay character that the centred frame F puts on cell (row, col) of a
\* sprite of sprite_rows rows: {} for none
Centred(F, sprite_rows, row, col) ==
    LET row_offset == Max(0, (sprite_rows - Len(F)) \div 2)
        col_offset == Max(0, (OPPONENT_ART_WIDTH - MaxLenOf(F)) \div 2)
        fr == row - row_offset
        fc == col - col_offset
    IN  IF /\ row < sprite_rows
           /\ fr \in 0..(Len(F) - 1)
           /\ fc \in 0..(Len(F[fr + 1]) - 1)
           /\ F[fr + 1][fc + 1] # " "
        THEN {F[fr + 1][fc + 1]}
        ELSE {}

\* block b of render r shows the centred frame on the cells for which Drawn
\* holds and the cells of the render without overlay everywhere else
ShowsCentred(r, b, Drawn(_, _)) ==
    LET i == r.blocks[b].index
        o == placeOpponents[i + 1]
        F == CurrentFrame(r, i)
        lines == r.blocks[b].lines
    IN  /\ Len(lines) = Len(r.base[b].lines)
        /\ \A row \in 0..(Len(lines) - 1) :
               /\ Len(lines[row + 1]) = OPPONENT_ART_WIDTH
               /\ \A col \in 0..(OPPONENT_ART_WIDTH - 1) :
                      LET over == Centred(F, Len(o.art_lines), row, col)
                      IN  lines[row + 1][col + 1] =
                              IF over # {} /\ Drawn(o, row)
                              THEN CHOOSE ch \in over : TRUE
                              ELSE r.base[b].lines[row + 1][col + 1]

Always(o, row) == TRUE

\* the sprite row has a colour-mask row and the palette has colours
MaskedRow(o, row) == placePalette /\ row < Len(o.color_map)

(***************************************************************************)
(* C22: when an overlay targets occupant i, its current frame              *)
(* (frames[overlay_frame_index mod len(frames)]) is centred over the       *)
(* sprite of that occupant at row offset max(0, floor((sprite_rows -       *)
(* overlay_rows) / 2)) and column offset max(0, floor((block_width -       *)
(* overlay_width) / 2)): the non-space overlay characters that fall on a   *)
(* sprite row above the bar and inside the block replace the sprite cells, *)
(* every other cell of the block and every other block are as without the  *)
(* overlay.                                                                *)
(***************************************************************************)
C22_OverlayCentred ==
    \A r \in placeRender : \A b \in 1..Len(r.blocks) : ShowsCentred(r, b, Always)

\* the same placement, for the sprite rows that have a colour-mask row
C22_MaskedOverlayCentred ==
    \A r \in placeRender : \A b \in 1..Len(r.blocks) : ShowsCentred(r, b, MaskedRow)

\* an overlay drawn over a masked sprite next to another sprite
C22_Witness ==
    \E r \in placeRender :
        /\ r.index = {0}
        /\ Len(r.blocks) = 2
        /\ r.blocks[1].lines # r.base[1].lines
        /\ r.include_bars

\* the placement entries (1-based) that paint a character onto cell (y, x)
Painters(y, x) ==
    {k \in 1..Len(writes) : \E w \in writes[k] : w.y = y /\ w.x = x}

\* the later of two sets of entries: its last one
LastOf(ks) == CHOOSE k \in ks : \A j \in ks : j <= k

\* what entry k paints onto cell (y, x)
WriteOf(k, y, x) == CHOOSE w \in writes[k] : w.y = y /\ w.x = x

(***************************************************************************)
(* C23: blits are last-wins on both layers.  A canvas cell that placement  *)
(* entries paint a non-space character onto ends with the character, the   *)
(* mask code and the seed and jitter metadata of the last such entry in    *)
(* placement order (no mask code and no metadata if that entry has none    *)
(* for the cell); the blanks of an entry change nothing, so a cell that no *)
(* entry paints stays blank.                                               *)
(***************************************************************************)
C23_LastWins ==
    venuePc = "rendered" =>
        \A y \in 0..(max_height - 1), x \in 0..(cursor - 1) :
            IF Painters(y, x) = {} THEN canvas[y][x] = BlankCell
            ELSE LET w == WriteOf(LastOf(Painters(y, x)), y, x)
                 IN  /\ canvas[y][x].ch = w.ch
                     /\ canvas[y][x].mask = (IF w.mask = "" THEN " " ELSE w.mask)
                     /\ canvas[y][x].rand = w.rand
                     /\ canvas[y][x].jitter = w.jitter

\* the character layer is last-wins, and the mask code of a cell is that of
\* the last entry that has a mask code for the character it paints there
C23_CharLastWins ==
    venuePc = "rendered" =>
        \A y \in 0..(max_height - 1), x \in 0..(cursor - 1) :
            IF Painters(y, x) = {} THEN canvas[y][x] = BlankCell
            ELSE LET masked == {k \in Painters(y, x) : WriteOf(k, y, x).mask # ""}
                 IN  /\ canvas[y][x].ch = WriteOf(LastOf(Painters(y, x)), y, x).ch
                     /\ canvas[y][x].mask =
                            (IF masked = {} THEN " " ELSE WriteOf(LastOf(masked), y, x).mask)

\* a span fill and a later asset paint the same cell
C23_Witness ==
    /\ venuePc = "rendered"
    /\ \E y \in 0..(max_height - 1), x \in 0..(cursor - 1) :
           /\ Cardinality(Painters(y, x)) = 2
           /\ \E k \in Painters(y, x) : IsSpan(k)
           /\ canvas[y][x].ch = WriteOf(LastOf(Painters(y, x)), y, x).ch

(***************************************************************************)
(* One render_frame call on a Frame whose lists hold copies of one line    *)
(* each: no line, a short one, or a long one that is plain, coloured, or   *)
(* starts with an ESC [ ... m run that strip_ansi does not take for a      *)
(* colour sequence.                                                        *)
(***************************************************************************)
LongLen == 50

ManyLines == 25

MaxActions == SCREEN_HEIGHT - STAT_LINES - 6 + 1

\* a plain line of n characters behind a head
PanelLine(head, n) == head \o Repeat("x", n)

OddRun == <<ESC, "[", "[", "m">>

PanelLines ==
    {PanelLine(<<>>, 5), PanelLine(<<>>, LongLen), PanelLine(FG_RED, LongLen),
     PanelLine(OddRun, LongLen)}

\* the lists: none, one line, or many copies of one line
PanelLists ==
    {<<>>, <<PanelLine(<<>>, 5)>>}
        \cup {[k \in 1..ManyLines |-> line] : line \in PanelLines}

\* frame.art_lines and frame.art_anchor_x
PanelArts ==
    {[lines |-> lines, anchor |-> {}] : lines \in PanelLists}
        \cup {[lines |-> <<PanelLine(FG_RED, LongLen), PanelLine(<<>>, 5)>>,
               anchor |-> {LongLen}]}

PanelStatLists ==
    {<<>>, <<<<"H", "P", ":", " ", "5">>, <<"L", "e", "v", "e", "l", ":", " ", "1">>>>}

\* frame.location, frame.status_lines and frame.stat_lines
PanelHeads ==
    {[location |-> "Forest", status_lines |-> <<>>, stat_lines |-> <<>>]}
        \cup {[location |-> "Town", status_lines |-> <<PanelLine(<<>>, 5)>>,
                stat_lines |-> stat_lines] : stat_lines \in PanelStatLists \ {<<>>}}
        \cup {[location |-> location,
                status_lines |-> [k \in 1..ManyLines |-> PanelLine(<<>>, LongLen)],
                stat_lines |-> IF location = "Town" THEN <<>>
                               ELSE CHOOSE stat_lines \in PanelStatLists : stat_lines # <<>>] :
                    location \in {"Forest", "Town"}}

InitPanel ==
    /\ IdleExceptPanel
    /\ \E head \in PanelHeads,
          art \in PanelArts,
          body_lines \in PanelLists,
          n_actions \in {0, MaxActions - 1, MaxActions} :
           panelFrame = PanelFrame(head.location, art.lines, art.anchor, body_lines,
                                   head.status_lines,
                                   [k \in 1..n_actions |->
                                       PanelLine(FG_RED, IF k % 2 = 1 THEN 5 ELSE LongLen)],
                                   head.stat_lines)
    /\ panelOut = <<>>

\* render_frame(frame)
RenderPanel ==
    /\ panelOut = <<>>
    /\ LET output == render_frame(panelFrame)
       IN  panelOut' = [k \in 1..Len(output) |->
                           [kind |-> output[k].kind,
                            width |-> Len(strip_ansi(output[k].text))]]
    /\ UNCHANGED panelFrame
    /\ UNCHANGED exceptPanelVars

NextPanel == RenderPanel

SpecPanel == InitPanel /\ [][NextPanel]_vars

\* the rows of the panel in order, for n action lines
PanelKinds(n) ==
    <<"top", "location", "separator">>
        \o [k \in 1..Max(0, SCREEN_HEIGHT - STAT_LINES - 6 - n) |-> "body"]
        \o <<"actions">> \o [k \in 1..n |-> "action"]
        \o <<"stats">> \o [k \in 1..STAT_LINES |-> "stat"] \o <<"bottom">>

FixedPanel ==
    /\ Len(panelOut) = SCREEN_HEIGHT
    /\ [k \in 1..Len(panelOut) |-> panelOut[k].kind] = PanelKinds(Len(panelFrame.action_lines))
    /\ \A k \in 1..Len(panelOut) : panelOut[k].width = PanelWidth

\* every escape run of the line is one that strip_ansi removes
PlainOrColoured(line) ==
    LET visible == strip_ansi(line)
    IN  \A k \in 1..Len(visible) : visible[k] # ESC

(***************************************************************************)
(* C24: for every Frame whose action_lines has at most SCREEN_HEIGHT -     *)
(* STAT_LINES - 6 entries, and any number of art, body and status lines of *)
(* any length, render_frame writes exactly SCREEN_HEIGHT rows, in the      *)
(* order top border, location row, separator, body rows, actions header,   *)
(* action rows, stats header, STAT_LINES stat rows, bottom border, and     *)
(* every row has the visible width of the screen.                          *)
(***************************************************************************)
C24_FixedPanel ==
    (panelOut # <<>> /\ Len(panelFrame.action_lines) <= SCREEN_HEIGHT - STAT_LINES - 6)
        => FixedPanel

\* the same, for frames whose art and body lines hold no escape run other
\* than colour sequences
C24_FixedPanelOfColouredLines ==
    (/\ panelOut # <<>>
     /\ Len(panelFrame.action_lines) <= SCREEN_HEIGHT - STAT_LINES - 6
     /\ \A k \in 1..Len(panelFrame.art_lines) : PlainOrColoured(panelFrame.art_lines[k])
     /\ \A k \in 1..Len(panelFrame.body_lines) : PlainOrColoured(panelFrame.body_lines[k]))
        => FixedPanel

\* a frame with more art, body and status lines than the body holds, all long
C24_Witness ==
    /\ panelOut # <<>>
    /\ Len(panelFrame.art_lines) = ManyLines
    /\ Len(panelFrame.body_lines) = ManyLines
    /\ Len(panelFrame.status_lines) = ManyLines
    /\ Len(panelFrame.action_lines) = 0
    /\ FixedPanel

(***************************************************************************)
(* The host's opponents under render_scene_art, flash_opponent,            *)
(* animate_spell_overlay, animate_scene_gap and melt_opponent.             *)
(***************************************************************************)
MaxHostCalls == 2

HostSprites == {<<>>, <<<<"#">>, <<"#", "#">>>>}

HostOpponents ==
    {[MaskedOpponent(art, hp, color_map) EXCEPT !.melted = melted] :
        art \in HostSprites, hp \in {0, 2}, melted \in BOOLEAN,
        color_map \in {<<>>, <<<<"a">>>>}}

InitHost ==
    /\ IdleExceptHost
    /\ \E n \in 0..2 :
          /\ hostHeap \in [1..n -> HostOpponents]
          /\ hostList = [i \in 1..n |-> i]
    /\ hostBefore = [heap |-> hostHeap, list |-> hostList]
    /\ hostCount = 0
    /\ hostLast = [op |-> "none", index |-> {}, frames |-> <<>>]

\* a call returned: its frames are recorded and its copies are dropped
HostReturn(call, index, result) ==
    /\ hostCount < MaxHostCalls
    /\ hostCount' = hostCount + 1
    /\ hostHeap' = Reached(result.heap, hostList)
    /\ hostLast' = [op |-> call, index |-> index, frames |-> result.frames]
    /\ UNCHANGED <<hostList, hostBefore>>
    /\ UNCHANGED exceptHostVars

\* render_scene_art(scene_data, opponents, ...)
CallRenderSceneArt ==
    HostReturn("render_scene_art", {},
               [heap |-> hostHeap, frames |-> <<Deref(hostHeap, hostList)>>])

CallFlashOpponent ==
    \E index \in Indices(hostList) :
        HostReturn("flash_opponent", index, flash_opponent(hostHeap, hostList, index))

CallAnimateSpellOverlay ==
    \E index \in Indices(hostList), effect \in Effects :
        HostReturn("animate_spell_overlay", index,
                   animate_spell_overlay(hostHeap, hostList, index, effect))

\* animate_scene_gap as animate_battle_start calls it (art_opponents=[]) and
\* with the caller's list
CallAnimateSceneGap ==
    \E start_gap \in {2, 4}, steps \in {0, 2}, art_opponents \in {{}, {<<>>}} :
        HostReturn("animate_scene_gap", {},
                   animate_scene_gap(hostHeap, hostList, start_gap, 4, steps, art_opponents))

CallMeltOpponent ==
    \E index \in Indices(hostList) :
        HostReturn("melt_opponent", index, melt_opponent(hostHeap, hostList, index))

NextHost ==
    \/ CallRenderSceneArt
    \/ CallFlashOpponent
    \/ CallAnimateSpellOverlay
    \/ CallAnimateSceneGap
    \/ CallMeltOpponent

SpecHost == InitHost /\ [][NextHost]_vars

(***************************************************************************)
(* C25: after any sequence of render_scene_art, flash_opponent,            *)
(* animate_spell_overlay, animate_scene_gap and melt_opponent calls, every *)
(* opponent in the caller's list has the same hp, melted flag, art_lines   *)
(* and color_map as before, and the list has the same length and order.    *)
(***************************************************************************)
C25_HostRecordsRead ==
    /\ hostList = hostBefore.list
    /\ \A i \in 1..Len(hostList) :
          LET now == hostHeap[hostList[i]]
              before == hostBefore.heap[hostBefore.list[i]]
          IN  /\ now.hp = before.hp
              /\ now.melted = before.melted
              /\ now.art_lines = before.art_lines
              /\ now.color_map = before.color_map

\* a melt has drawn its last frame, the target blank and at hp 0 in the frame's
\* copy, while the caller's record keeps its sprite and its hp
C25_Witness ==
    /\ hostLast.op = "melt_opponent"
    /\ hostLast.frames # <<>>
    /\ LET n == CHOOSE n \in hostLast.index : TRUE
           shown == hostLast.frames[Len(hostLast.frames)][n + 1]
       IN  /\ shown.hp = 0
           /\ \A r \in 1..Len(shown.art_lines) : shown.art_lines[r] = BlankRow
           /\ hostHeap[hostList[n + 1]].hp = 2
           /\ hostHeap[hostList[n + 1]].art_lines # shown.art_lines
    /\ C25_HostRecordsRead

(***************************************************************************)
(* The gap of every row of one render_scene_art call, with and without a   *)
(* gap override.                                                           *)
(***************************************************************************)
GapOverrides == {{}, {0}, {5}, {5 * MaxGapWidth}}

InitRows ==
    /\ IdleExceptRows
    /\ rowScene \in ArtScenes
    /\ rowOpponents \in {<<>>} \cup ArtOpponentLists
    /\ rowOverride \in GapOverrides
    /\ rowWidths = {}

\* render_scene_art(scene_data, opponents, gap_override=...)
RenderGapRows ==
    /\ rowWidths = {}
    /\ LET gaps == render_scene_art(rowScene, rowOpponents, rowOverride, TRUE, FG_GREEN)
       IN  rowWidths' = {[r \in 1..Len(gaps) |-> Len(strip_ansi(gaps[r].fill))]}
    /\ UNCHANGED <<rowScene, rowOpponents, rowOverride>>
    /\ UNCHANGED exceptRowsVars

NextRows == RenderGapRows

SpecRows == InitRows /\ [][NextRows]_vars

\* every row of the render has the same gap width
UniformGap ==
    \A widths \in rowWidths : \A r, q \in 1..Len(widths) : widths[r] = widths[q]

(***************************************************************************)
(* C26: within one render_scene_art call the gap has the same visible      *)
(* width on every output row, rows above, within and below the opponent    *)
(* blocks alike, in the mirrored form and in the template form, for every  *)
(* opponent list and every gap_override.                                   *)
(***************************************************************************)
C26_UniformGap == UniformGap

\* the same for the mirrored form alone
C26_MirroredUniformGap == rowScene.left => UniformGap

\* a mirrored render with rows above the blocks and an override smaller than
\* the blocks need
C26_Witness ==
    /\ rowScene.left
    /\ rowOverride = {5}
    /\ Len(WithArt(rowOpponents, 1)) = 2
    /\ \E widths \in rowWidths :
          /\ Len(widths) > MaxRowsOf(OpponentBlocks(rowOpponents, {"all"}, TRUE, {}))
          /\ UniformGap

(***************************************************************************)
(* Sequences of handle_command calls from a state with every mode off.     *)
(***************************************************************************)
MaxModeCalls == 3

MaxItems == 2

CommandIds ==
    {"ENTER_VENUE", "ENTER_SCENE", "B_KEY", "SPELLBOOK", "INVENTORY", "USE_SERVICE",
     "ATTACK", "TITLE_NEW", "TITLE_CONTINUE", "TITLE_CONFIRM_YES", "QUIT"}
        \cup NumCommands

\* the environments that make a difference to the command
CommandEnvs(command_id) ==
    IF command_id = "ENTER_VENUE"
    THEN {CommandEnv(key, <<>>, FALSE, 0, FALSE, FALSE) : key \in {"", "S", "h", "i", "x"}}
    ELSE IF command_id = "ENTER_SCENE"
    THEN {CommandEnv(key, spawned, FALSE, 0, FALSE, FALSE) :
             key \in {"", "f", "t", "m"},
             spawned \in {<<>>, <<RouterOpponent("Slime", 3, 3)>>}}
    ELSE IF command_id \in NumCommands
    THEN {CommandEnv("", <<>>, found, listed, FALSE, FALSE) :
             found \in BOOLEAN, listed \in 0..MaxItems}
    ELSE IF command_id = "INVENTORY"
    THEN {CommandEnv("", <<>>, FALSE, listed, FALSE, FALSE) : listed \in 0..MaxItems}
    ELSE IF command_id \in {"TITLE_NEW", "TITLE_CONTINUE"}
    THEN {CommandEnv("", <<>>, FALSE, 0, save_exists, FALSE) : save_exists \in BOOLEAN}
    ELSE {CommandEnv("", <<>>, FALSE, 0, FALSE, handled) : handled \in BOOLEAN}

InitModes ==
    /\ IdleExceptModes
    /\ \E location \in {"Title", "Town", "Forest"} :
          modeState = CommandState(location, <<>>, NoLoot, <<>>,
                                   <<FALSE, FALSE, FALSE, FALSE, FALSE>>, "menu")
    /\ modeItems = 0
    /\ modeCalls = <<>>

HandleCommand ==
    /\ Len(modeCalls) < MaxModeCalls
    /\ \E command_id \in CommandIds :
          \E env \in CommandEnvs(command_id) :
              LET res == handle_command(command_id, modeState, modeItems, env)
              IN  /\ modeState' = res.state
                  /\ modeItems' = res.items
                  /\ modeCalls' = Append(modeCalls, command_id)
    /\ UNCHANGED exceptModesVars

NextModes == HandleCommand

SpecModes == InitModes /\ [][NextModes]_vars

ModesOn ==
    {m \in {"shop_mode", "hall_mode", "inn_mode", "inventory_mode", "spell_mode"} :
        modeState[m]}

(***************************************************************************)
(* C27: starting from a state in which shop_mode, hall_mode, inn_mode,     *)
(* inventory_mode and spell_mode are all false, after any sequence of      *)
(* handle_command calls at most one of those five flags is true.           *)
(***************************************************************************)
C27_ModeExclusive == Cardinality(ModesOn) <= 1

\* the same, but for the inventory opened from the inn
C27_ModeExclusiveButInn ==
    Cardinality(ModesOn) <= 1 \/ ModesOn = {"inn_mode", "inventory_mode"}

\* a menu opened from inside a venue has closed the venue
C27_Witness ==
    /\ Len(modeCalls) = 2
    /\ modeCalls[1] = "ENTER_VENUE"
    /\ modeCalls[2] = "SPELLBOOK"
    /\ ModesOn = {"spell_mode"}

(***************************************************************************)
(* A battle: the spawned opponents, then player actions, each a command    *)
(* followed by handle_offensive_action.                                    *)
(***************************************************************************)
MaxTurns == 4

\* opponents_data.spawn: one to three opponents at full hp, melted = False
BattleSpawns ==
    UNION {[1..n -> {[hp |-> hp, max_hp |-> hp, melted |-> FALSE] : hp \in 1..2}] :
              n \in 1..3}

InitBattle ==
    /\ IdleExceptBattle
    /\ battleOpponents \in BattleSpawns
    /\ battleCmd = {}
    /\ battleEvents = <<>>
    /\ battleMelts = [i \in 1..Len(battleOpponents) |-> 0]
    /\ battleTurns = 0

\* the command of the turn: ATTACK (_handle_attack) or SPARK (cast_spell), with
\* its target and its roll
BattleCommand ==
    /\ battleCmd = {}
    /\ battleTurns < MaxTurns
    /\ \E target_index \in Indices(battleOpponents), damage \in 0..2,
          action_cmd \in {"ATTACK", "SPARK"} :
           /\ battleOpponents' = AttackOpponents(battleOpponents, target_index, damage)
           /\ battleCmd' = {[action_cmd |-> action_cmd, target_index |-> target_index]}
    /\ battleTurns' = battleTurns + 1
    /\ UNCHANGED <<battleEvents, battleMelts>>
    /\ UNCHANGED exceptBattleVars

\* handle_offensive_action(ctx, state, action_cmd)
HandleOffensiveAction ==
    /\ battleCmd # {}
    /\ \E offensive \in BOOLEAN :
          LET cmd == CHOOSE c \in battleCmd : TRUE
              res == handle_offensive_action(battleOpponents, cmd.target_index, offensive,
                                             cmd.action_cmd = "SPARK")
          IN  /\ battleOpponents' = res.opponents
              /\ battleEvents' = res.events
              /\ battleMelts' =
                     [i \in 1..Len(battleMelts) |->
                         battleMelts[i]
                             + Cardinality({k \in 1..Len(res.events) :
                                               /\ res.events[k].op = "melt_opponent"
                                               /\ res.events[k].index = {i - 1}})]
    /\ battleCmd' = {}
    /\ UNCHANGED battleTurns
    /\ UNCHANGED exceptBattleVars

NextBattle ==
    \/ BattleCommand
    \/ HandleOffensiveAction

SpecBattle == InitBattle /\ [][NextBattle]_vars

\* the events the claim describes for opponents opps: the animation, then for
\* every defeated and unmelted opponent, in index order, its melt and its flag
RECURSIVE ClaimedMelts(_, _)
ClaimedMelts(opps, index) ==
    IF index >= Len(opps) THEN <<>>
    ELSE (IF opps[index + 1].hp <= 0 /\ ~opps[index + 1].melted
          THEN <<[op |-> "melt_opponent", index |-> {index}],
                 [op |-> "melted = True", index |-> {index}]>>
          ELSE <<>>) \o ClaimedMelts(opps, index + 1)

Animations == {"flash_opponent", "animate_spell_overlay"}

(***************************************************************************)
(* C28: in handle_offensive_action the flash or overlay animation runs     *)
(* first, then melt_opponent is called once, in index order, for every     *)
(* opponent with hp <= 0 and melted = false, and its melted flag is set    *)
(* right after its melt; no other opponent is melted; over any sequence of *)
(* offensive actions no opponent is melted twice, and after each offensive *)
(* action no opponent has hp <= 0 with melted = false.                     *)
(***************************************************************************)
C28_MeltedOnce ==
    /\ [][(battleCmd # {} /\ battleEvents' # <<>>) =>
            /\ battleEvents'[1].op \in Animations
            /\ Tail(battleEvents') = ClaimedMelts(battleOpponents, 0)
            /\ \A i \in 1..Len(battleOpponents) :
                  /\ battleOpponents'[i].hp = battleOpponents[i].hp
                  /\ battleOpponents'[i].hp <= 0 => battleOpponents'[i].melted]_vars
    /\ [](\A i \in 1..Len(battleMelts) : battleMelts[i] <= 1)

\* an offensive action has melted two opponents, the second of them felled by
\* the command of this turn, and left alone one that was melted before
C28_Witness ==
    /\ battleCmd = {}
    /\ Len(battleOpponents) = 3
    /\ Len(battleEvents) = 5
    /\ battleEvents[2].op = "melt_opponent"
    /\ battleEvents[4].op = "melt_opponent"
    /\ \E i \in 1..3 : battleMelts[i] = 1 /\ \A k \in 1..5 : battleEvents[k].index # {i - 1}
    /\ \A i \in 1..3 : battleOpponents[i].melted

(***************************************************************************)
(* Sequences of push_battle_message calls, every one with the default      *)
(* max_lines as at every call site, the player travelling in between.      *)
(***************************************************************************)
MaxPushes == 8

LogMessages ==
    {<<>>, EmergeMessage, <<"A", " ", "B", "a", "t", ".">>, <<"H", "i", "t", ".">>}

InitLog ==
    /\ IdleExceptLog
    /\ logLocation \in {"Forest", "Town"}
    /\ logBattle = <<>>
    /\ logLast = <<>>
    /\ logAppended = <<>>
    /\ logPushes = 0

PushBattleMessage ==
    /\ logPushes < MaxPushes
    /\ \E message \in LogMessages :
          LET res == push_message(logLocation, logBattle, message, max_lines)
          IN  /\ logBattle' = res.battle_log
              /\ logLast' = res.last_message
              /\ logAppended' = IF res.appended THEN Append(logAppended, message)
                                ELSE logAppended
    /\ logPushes' = logPushes + 1
    /\ UNCHANGED logLocation
    /\ UNCHANGED exceptLogVars

\* the player moves between the town and the forest
Travel ==
    /\ logPushes < MaxPushes
    /\ logLocation' = IF logLocation = "Forest" THEN "Town" ELSE "Forest"
    /\ UNCHANGED <<logBattle, logLast, logAppended, logPushes>>
    /\ UNCHANGED exceptLogVars

NextLog ==
    \/ PushBattleMessage
    \/ Travel

SpecLog == InitLog /\ [][NextLog]_vars

(***************************************************************************)
(* C29: after any sequence of push_battle_message calls the battle log     *)
(* holds at most max_lines entries; it is the appended messages without    *)
(* the oldest ones, in their order; and a push made while the player is    *)
(* not in the Forest, or with an empty message, changes last_message only. *)
(***************************************************************************)
C29_LogBound ==
    /\ [](/\ Len(logBattle) <= max_lines
          /\ logBattle = SubSeq(logAppended,
                                Max(1, Len(logAppended) - max_lines + 1),
                                Len(logAppended)))
    /\ [][(logPushes' # logPushes /\ (logLocation # "Forest" \/ logLast' = <<>>))
            => logBattle' = logBattle]_vars

\* the log has overflowed twice and holds the last max_lines messages
C29_Witness ==
    /\ Len(logAppended) = max_lines + 2
    /\ Len(logBattle) = max_lines
    /\ logBattle[1] = logAppended[3]
    /\ logBattle[1] # logAppended[1]
    /\ logBattle[max_lines] = logLast

(***************************************************************************)
(* One operation on a mirrored-form scene: the ordinary render or one of   *)
(* the battle animations.                                                  *)
(***************************************************************************)
\* scenes with scene_data["left"], and scenes with object strips on the left
MirroredScenes ==
    {ArtScene(left_rows, right_rows, 0, gap_min, {}) :
        left_rows \in {2, 4}, right_rows \in {0, 5}, gap_min \in {{}, {0}, {30}}}
        \cup {[ArtScene(3, 3, 0, gap_min, {}) EXCEPT !.left = FALSE, !.objects_left = TRUE] :
                 gap_min \in {{}, {0}, {30}}}

InitSteady ==
    /\ IdleExceptSteady
    /\ steadyScene \in MirroredScenes
    /\ steadyOpponents \in {<<>>} \cup ArtOpponentLists
    /\ steadyShown = Shown("none", 0, {})

Steadily(shown) ==
    /\ steadyShown.op = "none"
    /\ steadyShown' = shown
    /\ UNCHANGED <<steadyScene, steadyOpponents>>
    /\ UNCHANGED exceptSteadyVars

\* render_scene_art(scene_data, opponents) of the ordinary frame
SteadyRender ==
    Steadily(Shown("render_scene_art", 1, FrameGaps(steadyScene, steadyOpponents, {})))

SteadyBattleStart ==
    Steadily(animate_battle_start(steadyScene, steadyOpponents))

SteadyFlash ==
    \E index \in Indices(steadyOpponents) :
        Steadily(TargetFrames("flash_opponent", steadyScene, steadyOpponents,
                              IF index = {} THEN 0 ELSE 1))

SteadyOverlay ==
    \E index \in Indices(steadyOpponents), effect \in Effects :
        Steadily(TargetFrames("animate_spell_overlay", steadyScene, steadyOpponents,
                              IF index = {} \/ ~IsFrameList(effect) THEN 0
                              ELSE EffectLoops(effect) * Len(effect.frames)))

SteadyMelt ==
    \E index \in Indices(steadyOpponents) :
        Steadily(MeltFrames(steadyScene, steadyOpponents, index))

NextSteady ==
    \/ SteadyRender
    \/ SteadyBattleStart
    \/ SteadyFlash
    \/ SteadyOverlay
    \/ SteadyMelt

SpecSteady == InitSteady /\ [][NextSteady]_vars

(***************************************************************************)
(* C30: for every mirrored-form scene and opponent list, the gap of the    *)
(* ordinary render_scene_art call (no gap override) is                     *)
(* compute_scene_gap_target(scene, opponents), and so is the gap of the    *)
(* last frame of animate_battle_start and of the frames of flash_opponent, *)
(* melt_opponent and animate_spell_overlay.                                *)
(***************************************************************************)
C30_SteadyGap ==
    steadyShown.frames > 0 =>
        steadyShown.gaps = {compute_scene_gap_target(steadyScene, steadyOpponents)}

\* a melt of one of two opponents with art has shown its last frame at the
\* width the two blocks need, wider than the scene's own gap
C30_Witness ==
    /\ steadyShown.op = "melt_opponent"
    /\ steadyShown.frames > 0
    /\ Len(WithArt(steadyOpponents, 1)) = 2
    /\ GapBase(steadyScene) < compute_scene_gap_target(steadyScene, steadyOpponents)
    /\ steadyShown.gaps = {2 * OPPONENT_ART_WIDTH + 6}

====
